---- MODULE Spec2Model ----
(***************************************************************************)
(* Recruitment CRM: the credential store, the authenticator, the session   *)
(* holder, the candidate repository (CRUD, search, statistics) and the     *)
(* interaction repository, over a SQLite store.                            *)
(*                                                                         *)
(* Values that cross the Python / SQLite boundary are dynamically typed;   *)
(* they are modelled as tagged tuples: <<"None">>, <<"str", s>>,           *)
(* <<"int", n>>, <<"list", seq>>.  SQL NULL is Python None.                *)
(***************************************************************************)
EXTENDS Integers, Sequences, FiniteSets, TLC

VARIABLES
    users,          \* table users: id -> row
    candidates,     \* table candidates: id -> row
    call_history,   \* table call_history: id -> row
    seq,            \* sqlite_sequence (AUTOINCREMENT): table name -> last id given
    session,        \* st.session_state: authenticated, user, login_time
    now,            \* the wall clock, in ticks of HoursPerTick hours
    stats,          \* a get_statistics() call: its position and what it has read
    page,           \* the page run in progress: the arguments it is about to pass
    pending,        \* caller -> the change_password() call it is in the middle of
    ret             \* the last call: its name, its arguments and what it returned

vars == <<users, candidates, call_history, seq, session, now, stats, page, pending, ret>>

---------------------------------------------------------------------------
(* Bounds of the model *)

MaxCandidates == 2      \* candidate rows ever inserted
MaxUsers == 2           \* user rows ever inserted (the seeded admin included)
MaxCalls == 2           \* call_history rows ever inserted
MaxTime == 3            \* the clock stops here
HoursPerTick == 12      \* hours that pass in one tick of the clock
MaxSalt == 2            \* distinct salts bcrypt.gensalt() can draw
MaxCallers == 2         \* sessions that may be inside change_password() at once
MaxFilterKeys == 2      \* keys present in a search filter dictionary

---------------------------------------------------------------------------
(* Python values *)

PyNone == <<"None">>
PyStr(s) == <<"str", s>>
PyInt(n) == <<"int", n>>
PyList(l) == <<"list", l>>
PyDict(d) == <<"dict", d>>

IsNone(v) == v[1] = "None"
IsList(v) == v[1] = "list"

\* bool(v): None, "", 0 and [] are false
Truthy(v) ==
    CASE v[1] = "None" -> FALSE
      [] v[1] = "str"  -> v[2] # ""
      [] v[1] = "int"  -> v[2] # 0
      [] v[1] = "list" -> v[2] # <<>>

\* dict.get(k) and dict.get(k, default)
Get(d, k) == IF k \in DOMAIN d THEN d[k] ELSE PyNone
GetDefault(d, k, default) == IF k \in DOMAIN d THEN d[k] ELSE default

Range(s) == {s[i] : i \in DOMAIN s}

---------------------------------------------------------------------------
(* Program constants *)

ROLE_ADMIN == "admin"
ROLE_RECRUITER == "recruiter"
ROLE_VIEWER == "viewer"
ROLES == <<ROLE_ADMIN, ROLE_RECRUITER, ROLE_VIEWER>>

STATUS_APPLIED == "Applied"
STATUS_SCREENING == "Screening"
STATUS_INTERVIEW == "Interview"
STATUS_OFFER == "Offer"
STATUS_HIRED == "Hired"
STATUS_REJECTED == "Rejected"
CANDIDATE_STATUSES ==
    <<STATUS_APPLIED, STATUS_SCREENING, STATUS_INTERVIEW,
      STATUS_OFFER, STATUS_HIRED, STATUS_REJECTED>>

SESSION_TIMEOUT_HOURS == 24
DEFAULT_ADMIN_USERNAME == "admin"
DEFAULT_ADMIN_PASSWORD == "admin123"
DEFAULT_ADMIN_EMAIL == "admin@recruitment-crm.com"

\* get_connection() opens a plain sqlite3 connection and never issues
\* PRAGMA foreign_keys = ON, so SQLite leaves foreign keys unenforced.
foreign_keys == FALSE

---------------------------------------------------------------------------
(* Password hashing: bcrypt as a salted one-way function *)

Salts == 1..MaxSalt

\* bcrypt.hashpw(password, salt): the salt is kept in the hash
hashpw(password, salt) == [salt |-> salt, digest |-> password]

\* bcrypt.checkpw: hash the candidate password with the salt of the stored hash
verify_password(password, password_hash) ==
    hashpw(password, password_hash.salt) = password_hash

---------------------------------------------------------------------------
(* The schema's constraints and the write path *)

\* CHECK(status IN (...)): a CHECK passes unless its expression is false
StatusCheck(v) == IsNone(v) \/ (v[1] = "str" /\ v[2] \in Range(CANDIDATE_STATUSES))

\* CHECK(role IN (...))
RoleCheck(v) == IsNone(v) \/ (v[1] = "str" /\ v[2] \in Range(ROLES))

\* candidates: email UNIQUE NOT NULL, status NOT NULL with its CHECK, and,
\* when foreign keys are enforced, recruiter_id REFERENCES users(id)
CandidateRowOk(row, others) ==
    /\ ~IsNone(row.email)
    /\ ~IsNone(row.status)
    /\ StatusCheck(row.status)
    /\ \A o \in others : o.email # row.email
    /\ foreign_keys =>
          (IsNone(row.recruiter_id) \/
             (row.recruiter_id[1] = "int" /\ row.recruiter_id[2] \in DOMAIN users))

\* call_history: candidate_id and recruiter_id NOT NULL, and, when foreign keys
\* are enforced, both reference existing rows
CallRowOk(row) ==
    /\ ~IsNone(row.candidate_id)
    /\ ~IsNone(row.recruiter_id)
    /\ foreign_keys =>
          /\ row.candidate_id[2] \in DOMAIN candidates
          /\ row.recruiter_id[2] \in DOMAIN users

\* f with key k removed / with k mapped to v
Without(f, k) == [x \in DOMAIN f \ {k} |-> f[x]]
With(f, k, v) == [x \in DOMAIN f \cup {k} |-> IF x = k THEN v ELSE f[x]]

---------------------------------------------------------------------------
(* The clock *)

\* datetime.now() and SQLite's CURRENT_TIMESTAMP read the same wall clock
Tick ==
    /\ now < MaxTime
    /\ now' = now + 1
    /\ ret' = [op |-> "tick"]
    /\ UNCHANGED <<users, candidates, call_history, seq, session, stats, page, pending>>

---------------------------------------------------------------------------
(* get_statistics(): a reader that issues its queries one after another.  *)
(* stats.stale records that a write to candidates committed after the     *)
(* reader's first query.                                                  *)

StatsIdle == [pc |-> "idle"]

StatsAfterWrite ==
    IF stats.pc = "idle" THEN stats ELSE [stats EXCEPT !.stale = TRUE]

---------------------------------------------------------------------------
(* CandidateModel *)

\* the columns of candidates the operations below read or constrain; the
\* remaining columns are free text carried through unchanged
CandidateParams(data, status) ==
    [email |-> Get(data, "email"),
     years_of_experience |-> Get(data, "years_of_experience"),
     status |-> status,
     recruiter_id |-> Get(data, "recruiter_id"),
     source |-> Get(data, "source")]

CandidateRows == {candidates[i] : i \in DOMAIN candidates}

\* INSERT INTO candidates ...: the id on success, None when the insert raises
CandidateModel_create(data) ==
    LET params == CandidateParams(data, GetDefault(data, "status", PyStr("Applied")))
        id == seq.candidates + 1
        row == [id |-> id,
                email |-> params.email,
                years_of_experience |-> params.years_of_experience,
                status |-> params.status,
                recruiter_id |-> params.recruiter_id,
                source |-> params.source,
                created_by |-> Get(data, "created_by"),
                created_at |-> now]
    IN  /\ seq.candidates < MaxCandidates
        /\ IF CandidateRowOk(row, CandidateRows)
           THEN /\ candidates' = With(candidates, id, row)
                /\ seq' = [seq EXCEPT !.candidates = id]
                /\ stats' = StatsAfterWrite
                /\ ret' = [op |-> "candidate_create", data |-> data, value |-> PyInt(id)]
           ELSE /\ ret' = [op |-> "candidate_create", data |-> data, value |-> PyNone]
                /\ UNCHANGED <<candidates, seq, stats>>
        /\ UNCHANGED <<users, call_history, session, now, page, pending>>

\* the row UPDATE candidates SET <every column but created_by> WHERE id = ? leaves
UpdatedRow(candidate_id, data) ==
    LET params == CandidateParams(data, Get(data, "status"))
        old == candidates[candidate_id]
    IN  [id |-> candidate_id,
         email |-> params.email,
         years_of_experience |-> params.years_of_experience,
         status |-> params.status,
         recruiter_id |-> params.recruiter_id,
         source |-> params.source,
         created_by |-> old.created_by,
         created_at |-> old.created_at]

\* UPDATE candidates SET <every column> WHERE id = ?: True unless the write raises;
\* a WHERE that matches no row changes nothing and raises nothing
CandidateModel_update(candidate_id, data) ==
    LET old == candidates[candidate_id]
        row == UpdatedRow(candidate_id, data)
    IN  /\ IF candidate_id \notin DOMAIN candidates
           THEN /\ ret' = [op |-> "candidate_update", id |-> candidate_id, data |-> data, value |-> TRUE]
                /\ UNCHANGED <<candidates, stats>>
           ELSE IF CandidateRowOk(row, CandidateRows \ {old})
           THEN /\ candidates' = [candidates EXCEPT ![candidate_id] = row]
                /\ stats' = StatsAfterWrite
                /\ ret' = [op |-> "candidate_update", id |-> candidate_id, data |-> data, value |-> TRUE]
           ELSE /\ ret' = [op |-> "candidate_update", id |-> candidate_id, data |-> data, value |-> FALSE]
                /\ UNCHANGED <<candidates, stats>>
        /\ UNCHANGED <<users, call_history, seq, session, now, page, pending>>

\* UPDATE candidates SET status = ? WHERE id = ? on a table without the CHECK
CandidateModel_update_status_no_check(candidate_id, new_status) ==
    /\ IF candidate_id \in DOMAIN candidates /\ ~IsNone(new_status)
       THEN /\ candidates' = [candidates EXCEPT ![candidate_id].status = new_status]
            /\ stats' = StatsAfterWrite
            /\ ret' = [op |-> "candidate_update_status", id |-> candidate_id,
                       new_status |-> new_status, value |-> TRUE]
       ELSE /\ ret' = [op |-> "candidate_update_status", id |-> candidate_id,
                       new_status |-> new_status,
                       value |-> (candidate_id \notin DOMAIN candidates)]
            /\ UNCHANGED <<candidates, stats>>
    /\ UNCHANGED <<users, call_history, seq, session, now, page, pending>>

\* UPDATE candidates SET status = ? WHERE id = ?
CandidateModel_update_status(candidate_id, new_status) ==
    /\ IF candidate_id \notin DOMAIN candidates
       THEN /\ ret' = [op |-> "candidate_update_status", id |-> candidate_id,
                       new_status |-> new_status, value |-> TRUE]
            /\ UNCHANGED <<candidates, stats>>
       ELSE IF ~IsNone(new_status) /\ StatusCheck(new_status)
       THEN /\ candidates' = [candidates EXCEPT ![candidate_id].status = new_status]
            /\ stats' = StatsAfterWrite
            /\ ret' = [op |-> "candidate_update_status", id |-> candidate_id,
                       new_status |-> new_status, value |-> TRUE]
       ELSE /\ ret' = [op |-> "candidate_update_status", id |-> candidate_id,
                       new_status |-> new_status, value |-> FALSE]
            /\ UNCHANGED <<candidates, stats>>
    /\ UNCHANGED <<users, call_history, seq, session, now, page, pending>>

\* the call_history rows ON DELETE CASCADE removes with a candidate, which
\* SQLite does only on a connection that enforces foreign keys
CascadeCalls(candidate_id) ==
    IF foreign_keys
    THEN {i \in DOMAIN call_history : call_history[i].candidate_id = PyInt(candidate_id)}
    ELSE {}

\* DELETE FROM candidates WHERE id = ?
CandidateModel_delete(candidate_id) ==
    /\ candidates' = [i \in DOMAIN candidates \ {candidate_id} |-> candidates[i]]
    /\ call_history' =
          [i \in DOMAIN call_history \ CascadeCalls(candidate_id) |-> call_history[i]]
    /\ stats' = IF candidate_id \in DOMAIN candidates THEN StatsAfterWrite ELSE stats
    /\ ret' = [op |-> "candidate_delete", id |-> candidate_id, value |-> TRUE]
    /\ UNCHANGED <<users, seq, session, now, page, pending>>

---------------------------------------------------------------------------
(* CandidateModel.search and get_all *)

\* SQL comparisons: a comparison with NULL is not true
SqlEq(a, b) == ~IsNone(a) /\ ~IsNone(b) /\ a = b
SqlGe(a, b) == a[1] = "int" /\ b[1] = "int" /\ a[2] >= b[2]
SqlLe(a, b) == a[1] = "int" /\ b[1] = "int" /\ a[2] <= b[2]

\* the same rows in ascending order of created_at
RECURSIVE OrderByCreatedAtAsc(_)
OrderByCreatedAtAsc(S) ==
    IF S = {} THEN <<>>
    ELSE LET first == CHOOSE i \in S : \A j \in S :
                         \/ candidates[i].created_at < candidates[j].created_at
                         \/ /\ candidates[i].created_at = candidates[j].created_at
                            /\ i <= j
         IN  <<first>> \o OrderByCreatedAtAsc(S \ {first})

\* ORDER BY c.created_at DESC over the rows with ids in S. The table is scanned
\* in rowid order and SQLite's sorter keeps rows with equal created_at in the
\* order of the scan.
RECURSIVE OrderByCreatedAtDesc(_)
OrderByCreatedAtDesc(S) ==
    IF S = {} THEN <<>>
    ELSE LET first == CHOOSE i \in S : \A j \in S :
                         \/ candidates[i].created_at > candidates[j].created_at
                         \/ /\ candidates[i].created_at = candidates[j].created_at
                            /\ i <= j
         IN  <<first>> \o OrderByCreatedAtDesc(S \ {first})

\* SELECT c.*, u.full_name as recruiter_name ... LEFT JOIN users u ON c.recruiter_id = u.id
JoinRecruiter(c) ==
    With(c, "recruiter_name",
         IF \E u \in DOMAIN users : SqlEq(c.recruiter_id, PyInt(u))
         THEN PyStr(users[c.recruiter_id[2]].full_name)
         ELSE PyNone)

SelectCandidates(S) ==
    LET order == OrderByCreatedAtDesc(S)
    IN  [k \in DOMAIN order |-> JoinRecruiter(candidates[order[k]])]

\* search() with the status clause left out of the query
SearchWhere_no_status(c, filters) ==
    /\ ~IsNone(Get(filters, "min_experience")) =>
          SqlGe(c.years_of_experience, filters.min_experience)
    /\ ~IsNone(Get(filters, "max_experience")) =>
          SqlLe(c.years_of_experience, filters.max_experience)
    /\ Truthy(Get(filters, "recruiter_id")) =>
          SqlEq(c.recruiter_id, filters.recruiter_id)
    /\ Truthy(Get(filters, "source")) =>
          SqlEq(c.source, filters.source)

\* search() testing min_experience for truth, as it does status
SearchWhere_min_truthy(c, filters) ==
    /\ Truthy(Get(filters, "status")) =>
          IF IsList(filters.status)
          THEN \E k \in DOMAIN filters.status[2] : SqlEq(c.status, filters.status[2][k])
          ELSE SqlEq(c.status, filters.status)
    /\ Truthy(Get(filters, "min_experience")) =>
          SqlGe(c.years_of_experience, filters.min_experience)
    /\ ~IsNone(Get(filters, "max_experience")) =>
          SqlLe(c.years_of_experience, filters.max_experience)
    /\ Truthy(Get(filters, "recruiter_id")) =>
          SqlEq(c.recruiter_id, filters.recruiter_id)
    /\ Truthy(Get(filters, "source")) =>
          SqlEq(c.source, filters.source)

\* the WHERE clause search() builds from the keys status, min_experience,
\* max_experience, recruiter_id and source of its filters (the text and date
\* clauses are built the same way from keys these filters do not carry)
SearchWhere(c, filters) ==
    /\ Truthy(Get(filters, "status")) =>
          IF IsList(filters.status)
          THEN \E k \in DOMAIN filters.status[2] : SqlEq(c.status, filters.status[2][k])
          ELSE SqlEq(c.status, filters.status)
    /\ ~IsNone(Get(filters, "min_experience")) =>
          SqlGe(c.years_of_experience, filters.min_experience)
    /\ ~IsNone(Get(filters, "max_experience")) =>
          SqlLe(c.years_of_experience, filters.max_experience)
    /\ Truthy(Get(filters, "recruiter_id")) =>
          SqlEq(c.recruiter_id, filters.recruiter_id)
    /\ Truthy(Get(filters, "source")) =>
          SqlEq(c.source, filters.source)

search(filters) ==
    SelectCandidates({i \in DOMAIN candidates : SearchWhere(candidates[i], filters)})

\* get_all() with no limit
get_all == SelectCandidates(DOMAIN candidates)

CandidateModel_search(filters) ==
    /\ ret' = [op |-> "candidate_search", filters |-> filters, value |-> search(filters)]
    /\ UNCHANGED <<users, candidates, call_history, seq, session, now, stats, page, pending>>

CandidateModel_get_all ==
    /\ ret' = [op |-> "candidate_get_all", value |-> get_all]
    /\ UNCHANGED <<users, candidates, call_history, seq, session, now, stats, page, pending>>

---------------------------------------------------------------------------
(* CandidateModel.get_statistics: five queries, each on a connection of    *)
(* its own, so that a write can commit between any two of them             *)

\* SELECT <key>, 1 FROM candidates GROUP BY <key>: every group counted as one row
GroupCountOnce(key) ==
    [k \in {key[i] : i \in DOMAIN key} |-> 1]

\* SELECT <key>, COUNT(*) FROM candidates [WHERE ...] GROUP BY <key>, read into a dict
\* key maps the ids of the rows selected to the value they are grouped by
GroupCount(key) ==
    [k \in {key[i] : i \in DOMAIN key} |->
        Cardinality({i \in DOMAIN key : key[i] = k})]

\* u.full_name over the LEFT JOIN: NULL when no user has the recruiter's id
RecruiterName(c) ==
    IF ~IsNone(c.recruiter_id) /\ c.recruiter_id[2] \in DOMAIN users
    THEN PyStr(users[c.recruiter_id[2]].full_name)
    ELSE PyNone

\* DATE(t): the calendar day of an instant
Date(t) == (t * HoursPerTick) \div 24

\* the total taken from the table's AUTOINCREMENT sequence
get_statistics_total_by_sequence ==
    /\ stats.pc \in {"idle", "done"}
    /\ stats' = [pc |-> "by_status", stale |-> FALSE,
                 value |-> [total |-> seq.candidates]]
    /\ UNCHANGED <<users, candidates, call_history, seq, session, now, page, pending, ret>>

\* stats['total'] = db.get_table_count('candidates')
get_statistics_total ==
    /\ stats.pc \in {"idle", "done"}
    /\ stats' = [pc |-> "by_status", stale |-> FALSE,
                 value |-> [total |-> Cardinality(DOMAIN candidates)]]
    /\ UNCHANGED <<users, candidates, call_history, seq, session, now, page, pending, ret>>

\* stats['by_status']
get_statistics_by_status ==
    /\ stats.pc = "by_status"
    /\ stats' = [stats EXCEPT
                    !.pc = "by_source",
                    !.value = [total |-> stats.value.total,
                               by_status |-> GroupCount([i \in DOMAIN candidates |-> candidates[i].status])]]
    /\ UNCHANGED <<users, candidates, call_history, seq, session, now, page, pending, ret>>

\* stats['by_source']
get_statistics_by_source ==
    /\ stats.pc = "by_source"
    /\ stats' = [stats EXCEPT
                    !.pc = "by_recruiter",
                    !.value = [total |-> stats.value.total,
                               by_status |-> stats.value.by_status,
                               by_source |->
                                   GroupCount([i \in {j \in DOMAIN candidates :
                                                          ~IsNone(candidates[j].source)}
                                                  |-> candidates[i].source])]]
    /\ UNCHANGED <<users, candidates, call_history, seq, session, now, page, pending, ret>>

\* stats['by_recruiter']
get_statistics_by_recruiter ==
    /\ stats.pc = "by_recruiter"
    /\ stats' = [stats EXCEPT
                    !.pc = "recent",
                    !.value = [total |-> stats.value.total,
                               by_status |-> stats.value.by_status,
                               by_source |-> stats.value.by_source,
                               by_recruiter |->
                                   GroupCount([i \in {j \in DOMAIN candidates :
                                                          ~IsNone(candidates[j].recruiter_id)}
                                                  |-> RecruiterName(candidates[i])])]]
    /\ UNCHANGED <<users, candidates, call_history, seq, session, now, page, pending, ret>>

\* stats['recent'], and the dict is returned
get_statistics_recent ==
    /\ stats.pc = "recent"
    /\ stats' = [stats EXCEPT
                    !.pc = "done",
                    !.value = [total |-> stats.value.total,
                               by_status |-> stats.value.by_status,
                               by_source |-> stats.value.by_source,
                               by_recruiter |-> stats.value.by_recruiter,
                               recent |->
                                   Cardinality({i \in DOMAIN candidates :
                                       Date(candidates[i].created_at) >= Date(now) - 7})]]
    /\ ret' = [op |-> "get_statistics"]
    /\ UNCHANGED <<users, candidates, call_history, seq, session, now, page, pending>>

---------------------------------------------------------------------------
(* CallHistoryModel *)

\* INSERT INTO call_history ...
CallHistoryModel_create(data) ==
    LET id == seq.call_history + 1
        row == [id |-> id,
                candidate_id |-> Get(data, "candidate_id"),
                recruiter_id |-> Get(data, "recruiter_id"),
                next_action_date |-> Get(data, "next_action_date")]
    IN  /\ seq.call_history < MaxCalls
        /\ IF CallRowOk(row)
           THEN /\ call_history' = With(call_history, id, row)
                /\ seq' = [seq EXCEPT !.call_history = id]
                /\ ret' = [op |-> "call_create", value |-> PyInt(id)]
           ELSE /\ ret' = [op |-> "call_create", value |-> PyNone]
                /\ UNCHANGED <<call_history, seq>>
        /\ UNCHANGED <<users, candidates, session, now, stats, page, pending>>

\* DELETE FROM call_history WHERE id = ?
CallHistoryModel_delete(call_id) ==
    /\ call_history' = [i \in DOMAIN call_history \ {call_id} |-> call_history[i]]
    /\ ret' = [op |-> "call_delete", id |-> call_id, value |-> TRUE]
    /\ UNCHANGED <<users, candidates, seq, session, now, stats, page, pending>>

\* date.isoformat(): the text 'YYYY-MM-DD' of day d; texts of this form compare
\* as the days they name
PyDate(d) == <<"date", d>>

\* next_action_date > DATE('now')
SqlDateGt(v, today) == ~IsNone(v) /\ v[2] > today

\* next_action_date >= DATE('now'): a NULL compares as NULL and selects nothing
SqlDateGe(v, today) == ~IsNone(v) /\ v[2] >= today

\* ORDER BY ch.next_action_date ASC: rows with equal dates in the order of the scan
RECURSIVE OrderByNextActionDateAsc(_)
OrderByNextActionDateAsc(S) ==
    IF S = {} THEN <<>>
    ELSE LET first == CHOOSE i \in S : \A j \in S :
                         \/ call_history[i].next_action_date[2] < call_history[j].next_action_date[2]
                         \/ /\ call_history[i].next_action_date = call_history[j].next_action_date
                            /\ i <= j
         IN  <<first>> \o OrderByNextActionDateAsc(S \ {first})

\* SELECT ch.*, ..., c.email as candidate_email ... LEFT JOIN candidates c ON ch.candidate_id = c.id
JoinCandidate(ch) ==
    With(ch, "candidate_email",
         IF ch.candidate_id[2] \in DOMAIN candidates
         THEN candidates[ch.candidate_id[2]].email
         ELSE PyNone)

get_upcoming_followups ==
    LET order == OrderByNextActionDateAsc(
                    {i \in DOMAIN call_history :
                        SqlDateGe(call_history[i].next_action_date, Date(now))})
    IN  [k \in DOMAIN order |-> JoinCandidate(call_history[order[k]])]

CallHistoryModel_get_upcoming_followups ==
    /\ ret' = [op |-> "get_upcoming_followups", value |-> get_upcoming_followups]
    /\ UNCHANGED <<users, candidates, call_history, seq, session, now, stats, page, pending>>

---------------------------------------------------------------------------
(* UserModel *)

\* rows that hold user_id in a column declared REFERENCES users(id)
UserReferenced(user_id) ==
    \/ \E i \in DOMAIN candidates :
          \/ candidates[i].recruiter_id = PyInt(user_id)
          \/ candidates[i].created_by = PyInt(user_id)
    \/ \E i \in DOMAIN call_history : call_history[i].recruiter_id = PyInt(user_id)

\* delete() that also unassigns the deleted user's candidates
UserModel_delete_unassign(user_id) ==
    /\ users' = [i \in DOMAIN users \ {user_id} |-> users[i]]
    /\ candidates' =
          [i \in DOMAIN candidates |->
              IF candidates[i].recruiter_id = PyInt(user_id)
              THEN [candidates[i] EXCEPT !.recruiter_id = PyNone]
              ELSE candidates[i]]
    /\ ret' = [op |-> "user_delete", id |-> user_id, value |-> TRUE]
    /\ UNCHANGED <<call_history, seq, session, now, stats, page, pending>>

\* DELETE FROM users WHERE id = ?: the references carry no ON DELETE action, so
\* an enforcing connection refuses to delete a referenced user
UserModel_delete(user_id) ==
    /\ IF foreign_keys /\ user_id \in DOMAIN users /\ UserReferenced(user_id)
       THEN /\ ret' = [op |-> "user_delete", id |-> user_id, value |-> FALSE]
            /\ UNCHANGED users
       ELSE /\ users' = [i \in DOMAIN users \ {user_id} |-> users[i]]
            /\ ret' = [op |-> "user_delete", id |-> user_id, value |-> TRUE]
    /\ UNCHANGED <<candidates, call_history, seq, session, now, stats, page, pending>>

UserRows == {users[i] : i \in DOMAIN users}

\* users: username and email UNIQUE NOT NULL, role with its CHECK
UserRowOk(row, others) ==
    /\ RoleCheck(PyStr(row.role))
    /\ \A o \in others : o.username # row.username /\ o.email # row.email

\* UPDATE users SET role = ? WHERE id = ?
UserModel_update_role(user_id, new_role) ==
    /\ IF user_id \notin DOMAIN users
       THEN /\ ret' = [op |-> "user_update_role", id |-> user_id, role |-> new_role, value |-> TRUE]
            /\ UNCHANGED users
       ELSE IF RoleCheck(PyStr(new_role))
       THEN /\ users' = [users EXCEPT ![user_id].role = new_role]
            /\ ret' = [op |-> "user_update_role", id |-> user_id, role |-> new_role, value |-> TRUE]
       ELSE /\ ret' = [op |-> "user_update_role", id |-> user_id, role |-> new_role, value |-> FALSE]
            /\ UNCHANGED users
    /\ UNCHANGED <<candidates, call_history, seq, session, now, stats, page, pending>>

\* toggle_active_status() that also ends the sessions of the user
UserModel_toggle_active_status_ends_session(user_id) ==
    /\ users' = [i \in DOMAIN users |->
                    IF i = user_id
                    THEN [users[i] EXCEPT !.is_active = ~users[i].is_active]
                    ELSE users[i]]
    /\ session' = IF session.user # PyNone /\ session.user[2].id = user_id
                  THEN [authenticated |-> FALSE, user |-> PyNone, login_time |-> PyNone]
                  ELSE session
    /\ ret' = [op |-> "user_toggle_active_status", id |-> user_id, value |-> TRUE]
    /\ UNCHANGED <<candidates, call_history, seq, now, stats, page, pending>>

\* UPDATE users SET is_active = NOT is_active WHERE id = ?
UserModel_toggle_active_status(user_id) ==
    /\ users' = [i \in DOMAIN users |->
                    IF i = user_id
                    THEN [users[i] EXCEPT !.is_active = ~users[i].is_active]
                    ELSE users[i]]
    /\ ret' = [op |-> "user_toggle_active_status", id |-> user_id, value |-> TRUE]
    /\ UNCHANGED <<candidates, call_history, seq, session, now, stats, page, pending>>

\* update_profile() writing the email without the UNIQUE index on it
UserModel_update_profile_no_unique(user_id, full_name, email) ==
    /\ users' = [i \in DOMAIN users |->
                    IF i = user_id
                    THEN [users[i] EXCEPT !.full_name = full_name, !.email = email]
                    ELSE users[i]]
    /\ ret' = [op |-> "user_update_profile", id |-> user_id, email |-> email,
               value |-> TRUE]
    /\ UNCHANGED <<candidates, call_history, seq, session, now, stats, page, pending>>

\* UPDATE users SET full_name = ?, email = ? WHERE id = ?: False when the write
\* raises (the email is another user's), True otherwise
UserModel_update_profile(user_id, full_name, email) ==
    /\ IF user_id \notin DOMAIN users
       THEN /\ ret' = [op |-> "user_update_profile", id |-> user_id, email |-> email,
                       value |-> TRUE]
            /\ UNCHANGED users
       ELSE IF \A i \in DOMAIN users \ {user_id} : users[i].email # email
       THEN /\ users' = [users EXCEPT ![user_id].full_name = full_name,
                                      ![user_id].email = email]
            /\ ret' = [op |-> "user_update_profile", id |-> user_id, email |-> email,
                       value |-> TRUE]
       ELSE /\ ret' = [op |-> "user_update_profile", id |-> user_id, email |-> email,
                       value |-> FALSE]
            /\ UNCHANGED users
    /\ UNCHANGED <<candidates, call_history, seq, session, now, stats, page, pending>>

---------------------------------------------------------------------------
(* Authenticator *)

\* db.get_one: the first row of the result, None when there is none
get_one(rows) == IF rows = {} THEN PyNone ELSE PyDict(CHOOSE r \in rows : TRUE)

\* login() selecting the user by username alone
Authenticator_login_any_status(username, password) ==
    LET user == get_one({r \in UserRows : r.username = username})
    IN  /\ ret' = [op |-> "login", username |-> username, password |-> password,
                   value |-> IF IsNone(user) THEN PyNone
                             ELSE IF verify_password(password, user[2].password_hash)
                             THEN PyDict(Without(user[2], "password_hash"))
                             ELSE PyNone]
        /\ UNCHANGED <<users, candidates, call_history, seq, session, now, stats, page, pending>>

\* SELECT * FROM users WHERE username = ? AND is_active = TRUE, then the password
\* check; the record returned has no password_hash
Authenticator_login(username, password) ==
    LET user == get_one({r \in UserRows : r.username = username /\ r.is_active})
    IN  /\ ret' = [op |-> "login", username |-> username, password |-> password,
                   value |-> IF IsNone(user) THEN PyNone
                             ELSE IF verify_password(password, user[2].password_hash)
                             THEN PyDict(Without(user[2], "password_hash"))
                             ELSE PyNone]
        /\ UNCHANGED <<users, candidates, call_history, seq, session, now, stats, page, pending>>

\* what create_user() reports: the call's arguments, the value returned and the
\* exception caught on the way, if any
CreateUserResult(username, email, role, value, error) ==
    [op |-> "create_user", username |-> username, email |-> email, role |-> role,
     value |-> value, error |-> error]

\* create_user() with neither the check of the role nor the schema's
Authenticator_create_user_any_role(username, email, password, full_name, role) ==
    /\ seq.users < MaxUsers
    /\ \E salt \in Salts :
          LET id == seq.users + 1
              row == [id |-> id,
                      username |-> username,
                      email |-> email,
                      password_hash |-> hashpw(password, salt),
                      full_name |-> full_name,
                      role |-> role,
                      is_active |-> TRUE]
          IN  IF \A o \in UserRows : o.username # username /\ o.email # email
              THEN /\ users' = With(users, id, row)
                   /\ seq' = [seq EXCEPT !.users = id]
                   /\ ret' = CreateUserResult(username, email, role, TRUE, "")
              ELSE /\ ret' = CreateUserResult(username, email, role, FALSE, "IntegrityError")
                   /\ UNCHANGED <<users, seq>>
    /\ UNCHANGED <<candidates, call_history, session, now, stats, page, pending>>

\* the role check (ValueError for a role that is none of the three), bcrypt with
\* a fresh salt, then INSERT INTO users; every exception is caught and False returned
Authenticator_create_user(username, email, password, full_name, role) ==
    /\ \E salt \in Salts :
          LET id == seq.users + 1
              row == [id |-> id,
                      username |-> username,
                      email |-> email,
                      password_hash |-> hashpw(password, salt),
                      full_name |-> full_name,
                      role |-> role,
                      is_active |-> TRUE]
          IN  IF role \notin {ROLE_ADMIN, ROLE_RECRUITER, ROLE_VIEWER}
              THEN /\ ret' = CreateUserResult(username, email, role, FALSE, "ValueError")
                   /\ UNCHANGED <<users, seq>>
              ELSE IF UserRowOk(row, UserRows)
              THEN /\ seq.users < MaxUsers
                   /\ users' = With(users, id, row)
                   /\ seq' = [seq EXCEPT !.users = id]
                   /\ ret' = CreateUserResult(username, email, role, TRUE, "")
              ELSE /\ ret' = CreateUserResult(username, email, role, FALSE, "IntegrityError")
                   /\ UNCHANGED <<users, seq>>
    /\ UNCHANGED <<candidates, call_history, session, now, stats, page, pending>>

ChangePasswordResult(user_id, old_password, new_password, value) ==
    [op |-> "change_password", id |-> user_id, old |-> old_password,
     new |-> new_password, value |-> value]

\* change_password() called with no other writer of users running
\* (the stored hash is read and checked, then replaced)
Authenticator_change_password(user_id, old_password, new_password) ==
    /\ \E salt \in Salts :
          IF /\ user_id \in DOMAIN users
             /\ verify_password(old_password, users[user_id].password_hash)
          THEN /\ users' = [users EXCEPT ![user_id].password_hash =
                                            hashpw(new_password, salt)]
               /\ ret' = ChangePasswordResult(user_id, old_password, new_password, TRUE)
          ELSE /\ ret' = ChangePasswordResult(user_id, old_password, new_password, FALSE)
               /\ UNCHANGED users
    /\ UNCHANGED <<candidates, call_history, seq, session, now, stats, page, pending>>

Callers == 1..MaxCallers
NoneInProgress == [p \in Callers |-> [pc |-> "idle"]]

\* change_password(), first half: SELECT password_hash FROM users WHERE id = ? on
\* a connection of its own, then verify_password; False when there is no such
\* user or the old password does not verify
change_password_read(p, user_id, old_password, new_password) ==
    /\ pending[p].pc = "idle"
    /\ IF /\ user_id \in DOMAIN users
          /\ verify_password(old_password, users[user_id].password_hash)
       THEN /\ pending' = [pending EXCEPT ![p] =
                              [pc |-> "write", user_id |-> user_id,
                               old |-> old_password, new |-> new_password]]
            /\ ret' = [op |-> "change_password_verified", caller |-> p]
       ELSE /\ ret' = ChangePasswordResult(user_id, old_password, new_password, FALSE)
            /\ UNCHANGED pending
    /\ UNCHANGED <<users, candidates, call_history, seq, session, now, stats, page>>

\* change_password(), second half: the new hash, then UPDATE users SET
\* password_hash = ? WHERE id = ? on another connection, and True
change_password_write(p) ==
    /\ pending[p].pc = "write"
    /\ \E salt \in Salts :
          users' = [i \in DOMAIN users |->
                       IF i = pending[p].user_id
                       THEN [users[i] EXCEPT !.password_hash = hashpw(pending[p].new, salt)]
                       ELSE users[i]]
    /\ pending' = [pending EXCEPT ![p] = [pc |-> "idle"]]
    /\ ret' = ChangePasswordResult(pending[p].user_id, pending[p].old, pending[p].new, TRUE)
    /\ UNCHANGED <<candidates, call_history, seq, session, now, stats, page>>

\* check_permission() with export missing from the viewer's list
check_permission_viewer_no_export(role, action) ==
    LET permissions ==
            (ROLE_ADMIN :> <<"create", "edit", "delete", "view", "manage_users", "export">>)
         @@ (ROLE_RECRUITER :> <<"create", "edit", "delete", "view", "export">>)
         @@ (ROLE_VIEWER :> <<"view">>)
    IN  action \in Range(GetDefault(permissions, role, <<>>))

\* action in permissions.get(role, [])
check_permission(role, action) ==
    LET permissions ==
            (ROLE_ADMIN :> <<"create", "edit", "delete", "view", "manage_users", "export">>)
         @@ (ROLE_RECRUITER :> <<"create", "edit", "delete", "view", "export">>)
         @@ (ROLE_VIEWER :> <<"view", "export">>)
    IN  action \in Range(GetDefault(permissions, role, <<>>))

Authenticator_check_permission(role, action) ==
    /\ ret' = [op |-> "check_permission", role |-> role, action |-> action,
               value |-> check_permission(role, action)]
    /\ UNCHANGED <<users, candidates, call_history, seq, session, now, stats, page, pending>>

---------------------------------------------------------------------------
(* SessionManager and the login page *)

is_authenticated == session.authenticated
get_current_user == session.user

\* authenticated, the user record and the time of the login
SessionManager_set_current_user(user) ==
    session' = [authenticated |-> TRUE, user |-> user, login_time |-> PyInt(now)]

\* a logout that clears the flag and the login time and keeps the user
SessionManager_clear_session_keeps_user ==
    /\ session' = [session EXCEPT !.authenticated = FALSE, !.login_time = PyNone]
    /\ ret' = [op |-> "clear_session"]
    /\ UNCHANGED <<users, candidates, call_history, seq, now, stats, page, pending>>

\* logout
SessionManager_clear_session ==
    /\ session' = [authenticated |-> FALSE, user |-> PyNone, login_time |-> PyNone]
    /\ ret' = [op |-> "clear_session"]
    /\ UNCHANGED <<users, candidates, call_history, seq, now, stats, page, pending>>

\* hours since the login
time_difference == (now - session.login_time[2]) * HoursPerTick

\* check_session_timeout() reporting the expiry and leaving the session as it is
SessionManager_check_session_timeout_no_clear ==
    /\ IF IsNone(session.login_time)
       THEN ret' = [op |-> "check_session_timeout", value |-> FALSE]
       ELSE IF time_difference > SESSION_TIMEOUT_HOURS
       THEN ret' = [op |-> "check_session_timeout", value |-> TRUE]
       ELSE ret' = [op |-> "check_session_timeout", value |-> FALSE]
    /\ UNCHANGED <<session, users, candidates, call_history, seq, now, stats, page, pending>>

\* no login time: False; a login more than SESSION_TIMEOUT_HOURS ago: the session
\* is cleared and True; else False
SessionManager_check_session_timeout ==
    /\ IF IsNone(session.login_time)
       THEN /\ ret' = [op |-> "check_session_timeout", value |-> FALSE]
            /\ UNCHANGED session
       ELSE IF time_difference > SESSION_TIMEOUT_HOURS
       THEN /\ session' = [authenticated |-> FALSE, user |-> PyNone, login_time |-> PyNone]
            /\ ret' = [op |-> "check_session_timeout", value |-> TRUE]
       ELSE /\ ret' = [op |-> "check_session_timeout", value |-> FALSE]
            /\ UNCHANGED session
    /\ UNCHANGED <<users, candidates, call_history, seq, now, stats, page, pending>>

\* the login form over a login() that does not look at is_active
show_login_page_any_status(username, password) ==
    LET user == get_one({r \in UserRows : r.username = username})
        ok == /\ username # "" /\ password # ""
              /\ ~IsNone(user)
              /\ verify_password(password, user[2].password_hash)
    IN  /\ ~is_authenticated
        /\ IF ok
           THEN SessionManager_set_current_user(PyDict(Without(user[2], "password_hash")))
           ELSE UNCHANGED session
        /\ ret' = [op |-> "show_login_page", username |-> username, value |-> ok]
        /\ UNCHANGED <<users, candidates, call_history, seq, now, stats, page, pending>>

\* the login form, shown to a session that is not authenticated: empty fields
\* are refused, a user returned by auth.login becomes the session's user
show_login_page(username, password) ==
    LET user == get_one({r \in UserRows : r.username = username /\ r.is_active})
        ok == /\ username # "" /\ password # ""
              /\ ~IsNone(user)
              /\ verify_password(password, user[2].password_hash)
    IN  /\ ~is_authenticated
        /\ IF ok
           THEN SessionManager_set_current_user(PyDict(Without(user[2], "password_hash")))
           ELSE UNCHANGED session
        /\ ret' = [op |-> "show_login_page", username |-> username, value |-> ok]
        /\ UNCHANGED <<users, candidates, call_history, seq, now, stats, page, pending>>

---------------------------------------------------------------------------
(* The sub-pages: each run starts from the session as it stands *)

\* current_user['role'] and current_user['id'], read from the session
user_role == session.user[2].role
current_user_id == session.user[2].id

\* Candidates page, Add New tab: the form is there for a role that may create
Candidates_add_new(data) ==
    /\ is_authenticated
    /\ check_permission(user_role, "create")
    /\ CandidateModel_create(With(data, "created_by", PyInt(current_user_id)))

\* Candidates page, Edit/Delete tab: the edit form, for a candidate get_all() lists
Candidates_edit(selected_id, updated_data) ==
    /\ is_authenticated
    /\ check_permission(user_role, "edit")
    /\ selected_id \in DOMAIN candidates
    /\ CandidateModel_update(selected_id, updated_data)

\* Candidates page, Edit/Delete tab: the delete button
Candidates_delete(selected_id) ==
    /\ is_authenticated
    /\ check_permission(user_role, "delete")
    /\ selected_id \in DOMAIN candidates
    /\ CandidateModel_delete(selected_id)

\* Call History page, Log New Call tab: offered to every authenticated session
CallHistory_log_new_call(selected_candidate_id) ==
    /\ is_authenticated
    /\ selected_candidate_id \in DOMAIN candidates
    /\ CallHistoryModel_create([candidate_id |-> PyInt(selected_candidate_id),
                                recruiter_id |-> PyInt(current_user_id)])

\* Search page, the Search button
Search_run(filters) ==
    /\ is_authenticated
    /\ IF DOMAIN filters # {}
       THEN CandidateModel_search(filters)
       ELSE CandidateModel_get_all

---------------------------------------------------------------------------
(* Settings page: the user's own profile and, for an admin, the management *)
(* of users                                                                *)

\* what user_model.update_profile(user_id, full_name, email) returns
update_profile_value(user_id, email) ==
    \/ user_id \notin DOMAIN users
    \/ \A i \in DOMAIN users \ {user_id} : users[i].email # email

\* the users table user_model.update_profile(user_id, full_name, email) leaves
update_profile_users(user_id, full_name, email) ==
    IF user_id \in DOMAIN users /\ update_profile_value(user_id, email)
    THEN [users EXCEPT ![user_id].full_name = full_name, ![user_id].email = email]
    ELSE users

\* the Update Profile form: on success the session's user dict takes the new
\* name and email and is handed to set_current_user
Settings_update_profile(new_full_name, new_email) ==
    /\ is_authenticated
    /\ users' = update_profile_users(current_user_id, new_full_name, new_email)
    /\ IF update_profile_value(current_user_id, new_email)
       THEN SessionManager_set_current_user(
                PyDict([session.user[2] EXCEPT !.full_name = new_full_name,
                                               !.email = new_email]))
       ELSE UNCHANGED session
    /\ ret' = [op |-> "settings_update_profile", email |-> new_email,
               value |-> update_profile_value(current_user_id, new_email)]
    /\ UNCHANGED <<candidates, call_history, seq, now, stats, page, pending>>

\* the Add New User form of the admin's User Management tab
Settings_add_user(username, email, password, full_name, role) ==
    /\ is_authenticated
    /\ user_role = "admin"
    /\ username # "" /\ email # "" /\ password # "" /\ full_name # ""
    /\ Len(password) >= 8
    /\ role \in Range(ROLES)
    /\ Authenticator_create_user(username, email, password, full_name, role)

\* Manage Existing Users: the Update Role button for the user selected
Settings_update_role(selected_user_id, new_role) ==
    /\ is_authenticated
    /\ user_role = "admin"
    /\ selected_user_id \in DOMAIN users
    /\ new_role \in Range(ROLES)
    /\ UserModel_update_role(selected_user_id, new_role)

\* Manage Existing Users: the Toggle Status button
Settings_toggle_status(selected_user_id) ==
    /\ is_authenticated
    /\ user_role = "admin"
    /\ selected_user_id \in DOMAIN users
    /\ UserModel_toggle_active_status(selected_user_id)

\* Manage Existing Users: the Delete User button, refused for the own account
Settings_delete_user(selected_user_id) ==
    /\ is_authenticated
    /\ user_role = "admin"
    /\ selected_user_id \in DOMAIN users
    /\ IF selected_user_id = current_user_id
       THEN /\ ret' = [op |-> "settings_delete_user", id |-> selected_user_id,
                       value |-> FALSE]
            /\ UNCHANGED <<users, candidates, call_history, seq, session, now,
                           stats, page, pending>>
       ELSE UserModel_delete(selected_user_id)

---------------------------------------------------------------------------
(* UserModel.get_recruiters and the Dashboard's recruiter leaderboard *)

\* full names in the order SQLite's BINARY collation gives them
Collation ==
    <<"Ann Recruiter", "Renamed", "Rita Recruiter", "System Administrator", "Vera Viewer">>

NameRank(name) == CHOOSE k \in DOMAIN Collation : Collation[k] = name

\* ORDER BY full_name with rows of equal full_name in the reverse of the scan
RECURSIVE OrderByFullName_ties_reversed(_)
OrderByFullName_ties_reversed(S) ==
    IF S = {} THEN <<>>
    ELSE LET first == CHOOSE i \in S : \A j \in S :
                         \/ NameRank(users[i].full_name) < NameRank(users[j].full_name)
                         \/ /\ users[i].full_name = users[j].full_name
                            /\ i >= j
         IN  <<first>> \o OrderByFullName_ties_reversed(S \ {first})

\* ORDER BY full_name over the users with ids in S: the table is scanned in rowid
\* order and rows with equal full_name stay in the order of the scan
RECURSIVE OrderByFullName(_)
OrderByFullName(S) ==
    IF S = {} THEN <<>>
    ELSE LET first == CHOOSE i \in S : \A j \in S :
                         \/ NameRank(users[i].full_name) < NameRank(users[j].full_name)
                         \/ /\ users[i].full_name = users[j].full_name
                            /\ i <= j
         IN  <<first>> \o OrderByFullName(S \ {first})

\* SELECT * FROM users WHERE (role = 'recruiter' OR role = 'admin') AND is_active
\* = TRUE ORDER BY full_name, the password hashes removed
get_recruiters ==
    LET order == OrderByFullName({i \in DOMAIN users :
                                     /\ users[i].role \in {"recruiter", "admin"}
                                     /\ users[i].is_active})
    IN  [k \in DOMAIN order |-> Without(users[order[k]], "password_hash")]

\* count / total * 100 as the fraction it is; 0 when there is no candidate
Rate(count, total) == IF total > 0 THEN <<count * 100, total>> ELSE <<0, 1>>

RateEq(a, b) == a[1] * b[2] = b[1] * a[2]
RateLt(a, b) == a[1] * b[2] < b[1] * a[2]

\* the entry with the hired left out of the conversion count
LeaderboardEntry_conversion_without_hired(recruiter) ==
    LET recruiter_candidates == search([recruiter_id |-> PyInt(recruiter.id)])
        total_candidates == Len(recruiter_candidates)
        CountOf(status) ==
            Cardinality({k \in DOMAIN recruiter_candidates :
                            recruiter_candidates[k].status = PyStr(status)})
    IN  [recruiter |-> recruiter.full_name,
         total |-> total_candidates,
         hired |-> CountOf("Hired"),
         interview |-> CountOf("Interview"),
         offer |-> CountOf("Offer"),
         rejected |-> CountOf("Rejected"),
         success_rate |-> Rate(CountOf("Hired"), total_candidates),
         conversion_rate |->
             Rate(CountOf("Interview") + CountOf("Offer"), total_candidates)]

\* the leaderboard's entry for one recruiter
LeaderboardEntry(recruiter) ==
    LET recruiter_candidates == search([recruiter_id |-> PyInt(recruiter.id)])
        total_candidates == Len(recruiter_candidates)
        CountOf(status) ==
            Cardinality({k \in DOMAIN recruiter_candidates :
                            recruiter_candidates[k].status = PyStr(status)})
        hired_count == CountOf("Hired")
        interview_count == CountOf("Interview")
        offer_count == CountOf("Offer")
        rejected_count == CountOf("Rejected")
    IN  [recruiter |-> recruiter.full_name,
         total |-> total_candidates,
         hired |-> hired_count,
         interview |-> interview_count,
         offer |-> offer_count,
         rejected |-> rejected_count,
         success_rate |-> Rate(hired_count, total_candidates),
         conversion_rate |->
             Rate(interview_count + offer_count + hired_count, total_candidates)]

\* the sort key (success_rate, total) of a is greater than that of b
KeyGt(a, b) ==
    \/ RateLt(b.success_rate, a.success_rate)
    \/ RateEq(a.success_rate, b.success_rate) /\ a.total > b.total

RemoveAt(s, i) == [k \in 1..(Len(s) - 1) |-> IF k < i THEN s[k] ELSE s[k + 1]]

\* the sort on success_rate alone
RECURSIVE SortBySuccessRate(_)
SortBySuccessRate(s) ==
    IF s = <<>> THEN <<>>
    ELSE LET i == CHOOSE i \in DOMAIN s :
                     /\ \A j \in DOMAIN s : ~RateLt(s[i].success_rate, s[j].success_rate)
                     /\ \A j \in 1..(i - 1) : RateLt(s[j].success_rate, s[i].success_rate)
         IN  <<s[i]>> \o SortBySuccessRate(RemoveAt(s, i))

\* leaderboard_data.sort(key=(success_rate, total), reverse=True): descending,
\* entries with equal keys staying in the order they were appended
RECURSIVE SortLeaderboard(_)
SortLeaderboard(s) ==
    IF s = <<>> THEN <<>>
    ELSE LET i == CHOOSE i \in DOMAIN s :
                     /\ \A j \in DOMAIN s : ~KeyGt(s[j], s[i])
                     /\ \A j \in 1..(i - 1) : KeyGt(s[i], s[j])
         IN  <<s[i]>> \o SortLeaderboard(RemoveAt(s, i))

leaderboard ==
    LET recruiters == get_recruiters
    IN  SortLeaderboard([k \in DOMAIN recruiters |-> LeaderboardEntry(recruiters[k])])

\* the Dashboard page run, as far as the leaderboard
Dashboard_leaderboard ==
    /\ is_authenticated
    /\ ret' = [op |-> "leaderboard", value |-> leaderboard]
    /\ UNCHANGED <<users, candidates, call_history, seq, session, now, stats, page, pending>>

---------------------------------------------------------------------------
(* Settings page, Reassign Candidates tab: the Reassign All button.  The   *)
(* run lists the candidates, then writes them one by one; page.written is  *)
(* the set of candidates whose row a write of this run changed.            *)

\* no page run in progress
NoPage == [name |-> "none"]

Unassigned(c) == IsNone(c.recruiter_id)

\* the candidates of the source recruiter, or the unassigned ones
ReassignCandidates(from_recruiter_id) ==
    IF IsNone(from_recruiter_id)
    THEN SelectSeq(get_all, Unassigned)
    ELSE search([recruiter_id |-> from_recruiter_id])

RecruiterOptions == {get_recruiters[k].id : k \in DOMAIN get_recruiters}

\* the button is pressed: the tab is the admin's, there are two recruiters, the
\* target is a recruiter other than the source, the list is not empty
Settings_reassign_all(from_recruiter_id, to_recruiter_id) ==
    /\ is_authenticated
    /\ user_role = "admin"
    /\ page = NoPage
    /\ Len(get_recruiters) >= 2
    /\ from_recruiter_id \in {PyInt(r) : r \in RecruiterOptions} \cup {PyNone}
    /\ to_recruiter_id \in RecruiterOptions
    /\ from_recruiter_id # PyInt(to_recruiter_id)
    /\ ReassignCandidates(from_recruiter_id) # <<>>
    /\ page' = [name |-> "reassign_all",
                candidates |-> ReassignCandidates(from_recruiter_id),
                to_recruiter_id |-> to_recruiter_id,
                next |-> 1,
                success_count |-> 0,
                written |-> {}]
    /\ ret' = [op |-> "reassign_listed"]
    /\ UNCHANGED <<users, candidates, call_history, seq, session, now, stats, pending>>

\* the loop's body: candidate_data is the listed row with the new recruiter_id;
\* success_count grows when candidate_model.update returns True
Settings_reassign_update ==
    /\ page.name = "reassign_all"
    /\ page.next <= Len(page.candidates)
    /\ LET candidate == page.candidates[page.next]
           candidate_data == With(candidate, "recruiter_id", PyInt(page.to_recruiter_id))
           exists == candidate.id \in DOMAIN candidates
           row == UpdatedRow(candidate.id, candidate_data)
           raises == exists /\ ~CandidateRowOk(row, CandidateRows \ {candidates[candidate.id]})
       IN  /\ candidates' = IF exists /\ ~raises
                            THEN [candidates EXCEPT ![candidate.id] = row]
                            ELSE candidates
           /\ stats' = IF exists /\ ~raises THEN StatsAfterWrite ELSE stats
           /\ page' = [page EXCEPT
                          !.next = @ + 1,
                          !.success_count = IF ~raises THEN @ + 1 ELSE @,
                          !.written = IF exists /\ ~raises THEN @ \cup {candidate.id} ELSE @]
           /\ ret' = [op |-> "candidate_update", id |-> candidate.id, data |-> candidate_data, value |-> ~raises]
    /\ UNCHANGED <<users, call_history, seq, session, now, pending>>

\* after the loop: the message with success_count and len(candidates)
Settings_reassign_report ==
    /\ page.name = "reassign_all"
    /\ page.next > Len(page.candidates)
    /\ ret' = [op |-> "reassign_all",
               attempted |-> Len(page.candidates),
               succeeded |-> page.success_count,
               listed |-> {page.candidates[k].id : k \in DOMAIN page.candidates},
               to_recruiter_id |-> page.to_recruiter_id,
               written |-> page.written]
    /\ page' = NoPage
    /\ UNCHANGED <<users, candidates, call_history, seq, session, now, stats, pending>>

\* the Reassign Selected Candidate button: the run lists the candidates and
\* picks the one selected, then writes it
Settings_reassign_selected(from_recruiter_id, to_recruiter_id, selected_candidate_id) ==
    /\ is_authenticated
    /\ user_role = "admin"
    /\ page = NoPage
    /\ Len(get_recruiters) >= 2
    /\ from_recruiter_id \in {PyInt(r) : r \in RecruiterOptions} \cup {PyNone}
    /\ to_recruiter_id \in RecruiterOptions
    /\ from_recruiter_id # PyInt(to_recruiter_id)
    /\ \E k \in DOMAIN ReassignCandidates(from_recruiter_id) :
          /\ ReassignCandidates(from_recruiter_id)[k].id = selected_candidate_id
          /\ page' = [name |-> "reassign_selected",
                      selected_candidate |-> ReassignCandidates(from_recruiter_id)[k],
                      to_recruiter_id |-> to_recruiter_id]
    /\ ret' = [op |-> "reassign_listed"]
    /\ UNCHANGED <<users, candidates, call_history, seq, session, now, stats, pending>>

\* candidate_model.update(selected_candidate_id, candidate_data) with the listed
\* row and the new recruiter_id
Settings_reassign_selected_update ==
    /\ page.name = "reassign_selected"
    /\ LET candidate == page.selected_candidate
           candidate_data == With(candidate, "recruiter_id", PyInt(page.to_recruiter_id))
           exists == candidate.id \in DOMAIN candidates
           row == UpdatedRow(candidate.id, candidate_data)
           raises == exists /\ ~CandidateRowOk(row, CandidateRows \ {candidates[candidate.id]})
       IN  /\ candidates' = IF exists /\ ~raises
                            THEN [candidates EXCEPT ![candidate.id] = row]
                            ELSE candidates
           /\ stats' = IF exists /\ ~raises THEN StatsAfterWrite ELSE stats
           /\ ret' = [op |-> "reassign_selected", id |-> candidate.id, value |-> ~raises]
    /\ page' = NoPage
    /\ UNCHANGED <<users, call_history, seq, session, now, pending>>

\* Candidate Distribution by Recruiter: one row for each recruiter listed, with
\* the length of the search on its id, and the Unassigned row
recruiter_stats ==
    [k \in DOMAIN get_recruiters |->
        [Recruiter |-> get_recruiters[k].full_name,
         Candidates |-> Len(search([recruiter_id |-> PyInt(get_recruiters[k].id)]))]]
    \o <<[Recruiter |-> "Unassigned",
          Candidates |-> Len(SelectSeq(get_all, Unassigned))]>>

\* the source recruiters the selectbox offers, None for the unassigned
FromRecruiterOptions == {PyInt(r) : r \in RecruiterOptions} \cup {PyNone}

\* the tab as an admin sees it with two recruiters or more: the candidates
\* listed under each source, and the distribution table
Settings_reassign_view ==
    /\ is_authenticated
    /\ user_role = "admin"
    /\ page = NoPage
    /\ Len(get_recruiters) >= 2
    /\ ret' = [op |-> "reassign_view",
               listed |-> [from_recruiter_id \in FromRecruiterOptions |->
                              LET rows == ReassignCandidates(from_recruiter_id)
                              IN  {rows[k].id : k \in DOMAIN rows}],
               recruiter_stats |-> recruiter_stats]
    /\ UNCHANGED <<users, candidates, call_history, seq, session, now, stats, page, pending>>

---------------------------------------------------------------------------
(* The store after initialize_database(): empty tables and the seeded admin *)

SeededAdmin(salt) ==
    [id |-> 1,
     username |-> DEFAULT_ADMIN_USERNAME,
     email |-> DEFAULT_ADMIN_EMAIL,
     password_hash |-> hashpw(DEFAULT_ADMIN_PASSWORD, salt),
     full_name |-> "System Administrator",
     role |-> ROLE_ADMIN,
     is_active |-> TRUE]

\* SessionManager.init_session_state()
AnonymousSession == [authenticated |-> FALSE, user |-> PyNone, login_time |-> PyNone]

InitWith(salt, p) ==
    /\ users = (1 :> SeededAdmin(salt))
    /\ candidates = <<>>
    /\ call_history = <<>>
    /\ seq = [users |-> 1, candidates |-> 0, call_history |-> 0]
    /\ session = AnonymousSession
    /\ now = 0
    /\ stats = StatsIdle
    /\ page = p
    /\ pending = NoneInProgress
    /\ ret = [op |-> "init"]

\* the salt of the seeded hash matters only where passwords are verified
Init == InitWith(1, NoPage)

---------------------------------------------------------------------------
(* The repositories: candidates, their interactions and the users they     *)
(* refer to                                                                *)

CandidateEmails == {PyStr("ann@example.com"), PyStr("bob@example.com")}

\* what a caller may pass as a status: valid ones, one the schema rejects
NewStatuses == {PyStr(STATUS_APPLIED), PyStr("Pending")}
UpdateStatuses == {PyStr(STATUS_APPLIED), PyStr(STATUS_HIRED), PyStr("Pending")}

RecruiterIds == {PyNone, PyInt(1)}

\* candidate forms: new candidates enter the pipeline as Applied, by default
\* or explicitly
NewCandidateData ==
    [email : CandidateEmails, status : NewStatuses, recruiter_id : RecruiterIds,
     created_by : {PyInt(1)}]
    \cup [email : CandidateEmails, recruiter_id : RecruiterIds, created_by : {PyInt(1)}]

UpdateCandidateData ==
    [email : CandidateEmails, status : UpdateStatuses, recruiter_id : RecruiterIds]

CandidateIds == 1..MaxCandidates
CallIds == 1..MaxCalls
UserIds == 1..MaxUsers

\* the Log New Call form offers the candidates that exist
NewCallData ==
    [candidate_id : {PyInt(i) : i \in DOMAIN candidates}, recruiter_id : {PyInt(1)}]

StatusFilters == {[status |-> PyStr(s)] : s \in Range(CANDIDATE_STATUSES)}

\* search({})
NoFilters == <<>>

Next ==
    \/ \E data \in NewCandidateData : CandidateModel_create(data)
    \/ \E id \in CandidateIds, data \in UpdateCandidateData : CandidateModel_update(id, data)
    \/ \E id \in CandidateIds, s \in UpdateStatuses : CandidateModel_update_status(id, s)
    \/ \E id \in CandidateIds : CandidateModel_delete(id)
    \/ \E filters \in StatusFilters \cup {NoFilters} : CandidateModel_search(filters)
    \/ CandidateModel_get_all
    \/ Tick

Spec == Init /\ [][Next]_vars

---------------------------------------------------------------------------
(* References between the tables: candidates, the interactions logged for  *)
(* them, and the users both refer to                                       *)

\* the Add New form with the status left at its default
RefsCandidateData ==
    [email : CandidateEmails, recruiter_id : RecruiterIds, created_by : {PyInt(1)}]

NextRefs ==
    \/ \E data \in RefsCandidateData : CandidateModel_create(data)
    \/ \E id \in CandidateIds : CandidateModel_delete(id)
    \/ \E data \in NewCallData : CallHistoryModel_create(data)
    \/ \E id \in CallIds : CallHistoryModel_delete(id)
    \/ \E id \in UserIds : UserModel_delete(id)

SpecRefs == Init /\ [][NextRefs]_vars

---------------------------------------------------------------------------
(* search() as a function of the candidates stored and the filters passed  *)

CandidateEmailSeq ==
    <<"ann@example.com", "bob@example.com", "cat@example.com", "dan@example.com">>

\* imported and entered candidates: any status, with or without a recruiter,
\* years of experience and a source; each has an email of its own
SearchCandidateData ==
    [email : {PyStr(CandidateEmailSeq[seq.candidates + 1])},
     status : {PyStr(STATUS_APPLIED), PyStr(STATUS_HIRED)},
     years_of_experience : {PyNone, PyInt(1)},
     recruiter_id : RecruiterIds,
     source : {PyNone, PyStr("LinkedIn")},
     created_by : {PyInt(1)}]

FilterKeys == {"status", "min_experience", "max_experience", "recruiter_id", "source"}

\* what a caller passes under a key: nothing, an empty value, a value
FilterValues(k) ==
    CASE k = "status" ->
            {PyNone, PyStr(""), PyList(<<>>), PyStr(STATUS_APPLIED),
             PyList(<<PyStr(STATUS_APPLIED), PyStr(STATUS_HIRED)>>)}
      [] k = "min_experience" -> {PyNone, PyInt(0), PyInt(1), PyInt(2)}
      [] k = "max_experience" -> {PyNone, PyInt(0), PyInt(1)}
      [] k = "recruiter_id" -> {PyNone, PyInt(1)}
      [] k = "source" -> {PyNone, PyStr(""), PyStr("LinkedIn")}

FiltersOver(K) ==
    {f \in [K -> UNION {FilterValues(k) : k \in K}] : \A k \in K : f[k] \in FilterValues(k)}

SearchFilters ==
    UNION {FiltersOver(K) : K \in {K \in SUBSET FilterKeys : Cardinality(K) <= MaxFilterKeys}}

\* the Search page with its filters filled in
SearchPage(filters) == [name |-> "search", filters |-> filters]

InitSearch == \E filters \in SearchFilters : InitWith(1, SearchPage(filters))

NextSearch ==
    \/ \E data \in SearchCandidateData : CandidateModel_create(data)
    \/ CandidateModel_search(page.filters)

SpecSearch == InitSearch /\ [][NextSearch]_vars

---------------------------------------------------------------------------
(* The dashboard's statistics, read while candidates are written *)

StatsCandidateData ==
    {[email |-> e, status |-> PyStr(s), recruiter_id |-> PyInt(1),
      source |-> PyStr("LinkedIn")] :
        e \in CandidateEmails, s \in {STATUS_APPLIED, STATUS_HIRED}}

NextStats ==
    \/ \E data \in StatsCandidateData : CandidateModel_create(data)
    \/ \E id \in CandidateIds, data \in StatsCandidateData : CandidateModel_update(id, data)
    \/ \E id \in CandidateIds, s \in {STATUS_APPLIED, STATUS_SCREENING} :
          CandidateModel_update_status(id, PyStr(s))
    \/ \E id \in CandidateIds : CandidateModel_delete(id)
    \/ get_statistics_total
    \/ get_statistics_by_status
    \/ get_statistics_by_source
    \/ get_statistics_by_recruiter
    \/ get_statistics_recent

SpecStats == Init /\ [][NextStats]_vars

---------------------------------------------------------------------------
(* The credential store and the authenticator *)

Usernames == {DEFAULT_ADMIN_USERNAME, "rita"}
UserEmails == {DEFAULT_ADMIN_EMAIL, "rita@example.com"}
Passwords == {DEFAULT_ADMIN_PASSWORD, "hunter2-hunter2"}

\* the roles a caller may pass: one of the three, one that is none of them
NewRoles == {ROLE_RECRUITER, "manager"}

InitAuth == \E salt \in Salts : InitWith(salt, NoPage)

NextAuth ==
    \/ \E username \in Usernames, email \in UserEmails, password \in Passwords,
          role \in NewRoles :
          Authenticator_create_user(username, email, password, "Rita Recruiter", role)
    \/ \E id \in UserIds : UserModel_toggle_active_status(id)
    \/ \E id \in UserIds, old \in Passwords, new \in Passwords :
          Authenticator_change_password(id, old, new)
    \/ \E id \in UserIds : UserModel_delete(id)
    \/ \E username \in Usernames, password \in Passwords :
          Authenticator_login(username, password)

SpecAuth == InitAuth /\ [][NextAuth]_vars

---------------------------------------------------------------------------
(* The users table under the Settings page's user management *)

NextUsers ==
    \/ \E username \in Usernames, email \in UserEmails, role \in NewRoles \cup {ROLE_VIEWER} :
          Authenticator_create_user(username, email, DEFAULT_ADMIN_PASSWORD,
                                    "Rita Recruiter", role)
    \/ \E id \in UserIds, email \in UserEmails :
          UserModel_update_profile(id, "Renamed", email)
    \/ \E id \in UserIds, role \in NewRoles : UserModel_update_role(id, role)
    \/ \E id \in UserIds : UserModel_delete(id)

SpecUsers == Init /\ [][NextUsers]_vars

---------------------------------------------------------------------------
(* Passwords changed from several sessions at once *)

NextPassword ==
    \/ \E p \in Callers, id \in UserIds, old \in Passwords, new \in Passwords :
          change_password_read(p, id, old, new)
    \/ \E p \in Callers : change_password_write(p)
    \/ \E id \in UserIds : UserModel_delete(id)
    \/ \E username \in Usernames, password \in Passwords :
          Authenticator_login(username, password)

SpecPassword == Init /\ [][NextPassword]_vars

---------------------------------------------------------------------------
(* The permission table, asked while the stored users change *)

AskedRoles == {ROLE_ADMIN, ROLE_RECRUITER, ROLE_VIEWER, "manager", ""}
Actions == {"create", "edit", "delete", "view", "export", "manage_users"}

NextPerm ==
    \/ \E id \in UserIds, role \in AskedRoles : UserModel_update_role(id, role)
    \/ \E id \in UserIds : UserModel_toggle_active_status(id)
    \/ \E role \in AskedRoles, action \in Actions :
          Authenticator_check_permission(role, action)

SpecPerm == Init /\ [][NextPerm]_vars

---------------------------------------------------------------------------
(* A browser session: login, logout, the timeout check, the passing of time *)

NextSession ==
    \/ \E username \in {DEFAULT_ADMIN_USERNAME, "nobody", ""},
          password \in {DEFAULT_ADMIN_PASSWORD, "wrong-password"} :
          show_login_page(username, password)
    \/ SessionManager_clear_session
    \/ SessionManager_check_session_timeout
    \/ UserModel_toggle_active_status(1)
    \/ Tick

SpecSession == Init /\ [][NextSession]_vars

---------------------------------------------------------------------------
(* Sessions of an admin and of a viewer working through the pages *)

\* a viewer the admin has added on the Settings page
ViewerUser ==
    [id |-> 2,
     username |-> "vera",
     email |-> "vera@example.com",
     password_hash |-> hashpw("viewer-password", 1),
     full_name |-> "Vera Viewer",
     role |-> ROLE_VIEWER,
     is_active |-> TRUE]

InitPages ==
    /\ users = (1 :> SeededAdmin(1)) @@ (2 :> ViewerUser)
    /\ candidates = <<>>
    /\ call_history = <<>>
    /\ seq = [users |-> 2, candidates |-> 0, call_history |-> 0]
    /\ session = AnonymousSession
    /\ now = 0
    /\ stats = StatsIdle
    /\ page = NoPage
    /\ pending = NoneInProgress
    /\ ret = [op |-> "init"]

Logins == {<<DEFAULT_ADMIN_USERNAME, DEFAULT_ADMIN_PASSWORD>>, <<"vera", "viewer-password">>}

PageCandidateData ==
    [email : CandidateEmails, status : {PyStr(STATUS_APPLIED)}, recruiter_id : {PyNone}]

NextPages ==
    \/ \E l \in Logins : show_login_page(l[1], l[2])
    \/ SessionManager_check_session_timeout
    \/ SessionManager_clear_session
    \/ \E data \in PageCandidateData : Candidates_add_new(data)
    \/ \E id \in CandidateIds, data \in PageCandidateData : Candidates_edit(id, data)
    \/ \E id \in CandidateIds : Candidates_delete(id)
    \/ \E id \in CandidateIds : CallHistory_log_new_call(id)
    \/ \E filters \in {NoFilters, [status |-> PyStr(STATUS_APPLIED)]} : Search_run(filters)
    \/ Tick

SpecPages == InitPages /\ [][NextPages]_vars

---------------------------------------------------------------------------
(* The leaderboard over recruiters and the candidates assigned to them *)

BoardCandidateData ==
    [email : {PyStr(CandidateEmailSeq[seq.candidates + 1])},
     status : {PyStr(STATUS_APPLIED), PyStr(STATUS_INTERVIEW), PyStr(STATUS_HIRED)},
     recruiter_id : {PyInt(1), PyInt(2)},
     created_by : {PyInt(1)}]

NextBoard ==
    \/ show_login_page(DEFAULT_ADMIN_USERNAME, DEFAULT_ADMIN_PASSWORD)
    \/ \E full_name \in {"Ann Recruiter", "System Administrator"} :
          Authenticator_create_user("rita", "rita@example.com", "hunter2-hunter2",
                                    full_name, ROLE_RECRUITER)
    \/ \E id \in UserIds : UserModel_toggle_active_status(id)
    \/ \E data \in BoardCandidateData : CandidateModel_create(data)
    \/ Dashboard_leaderboard

SpecBoard == Init /\ [][NextBoard]_vars

---------------------------------------------------------------------------
(* Bulk reassignment by the admin while another user edits and deletes *)

\* a recruiter the admin has added on the Settings page
RecruiterUser ==
    [id |-> 2,
     username |-> "rita",
     email |-> "rita@example.com",
     password_hash |-> hashpw("hunter2-hunter2", 1),
     full_name |-> "Rita Recruiter",
     role |-> ROLE_RECRUITER,
     is_active |-> TRUE]

InitReassign ==
    /\ users = (1 :> SeededAdmin(1)) @@ (2 :> RecruiterUser)
    /\ candidates = <<>>
    /\ call_history = <<>>
    /\ seq = [users |-> 2, candidates |-> 0, call_history |-> 0]
    /\ session = AnonymousSession
    /\ now = 0
    /\ stats = StatsIdle
    /\ page = NoPage
    /\ pending = NoneInProgress
    /\ ret = [op |-> "init"]

ReassignCandidateData ==
    [email : {PyStr(CandidateEmailSeq[seq.candidates + 1])},
     status : {PyStr(STATUS_APPLIED)},
     recruiter_id : {PyNone, PyInt(1)},
     created_by : {PyInt(1)}]

\* the other user's edit: it gives a candidate an email of its choice; the
\* other user also moves candidates to Hired
OtherEditData ==
    [email : {PyStr(CandidateEmailSeq[k]) : k \in 1..(MaxCandidates + 1)},
     status : {PyStr(STATUS_APPLIED)},
     recruiter_id : {PyInt(1)}]

NextReassign ==
    \/ show_login_page(DEFAULT_ADMIN_USERNAME, DEFAULT_ADMIN_PASSWORD)
    \/ \E data \in ReassignCandidateData : CandidateModel_create(data)
    \/ \E from \in {PyNone, PyInt(1)}, to \in UserIds : Settings_reassign_all(from, to)
    \/ Settings_reassign_update
    \/ Settings_reassign_report
    \/ \E from \in {PyNone, PyInt(1)}, to \in UserIds, id \in CandidateIds :
          Settings_reassign_selected(from, to, id)
    \/ Settings_reassign_selected_update
    \/ \E id \in CandidateIds : CandidateModel_delete(id)
    \/ \E id \in CandidateIds, data \in OtherEditData : CandidateModel_update(id, data)
    \/ \E id \in CandidateIds : CandidateModel_update_status(id, PyStr(STATUS_HIRED))

SpecReassign == InitReassign /\ [][NextReassign]_vars

---------------------------------------------------------------------------
(* Follow-ups: interactions logged with or without a follow-up date, read   *)
(* as the days pass                                                         *)

Days == 0..Date(MaxTime)

\* the Log New Call form: the follow-up date is optional and may be any day
FollowupCallData ==
    [candidate_id : {PyInt(1)}, recruiter_id : {PyInt(1)},
     next_action_date : {PyNone} \cup {PyDate(d) : d \in Days \cup {Date(MaxTime) + 1}}]

FollowupCandidateData ==
    [email : {PyStr("ann@example.com")}, created_by : {PyInt(1)}]

NextFollowups ==
    \/ \E data \in FollowupCandidateData : CandidateModel_create(data)
    \/ \E data \in FollowupCallData : CallHistoryModel_create(data)
    \/ \E id \in CallIds : CallHistoryModel_delete(id)
    \/ CallHistoryModel_get_upcoming_followups
    \/ Tick

SpecFollowups == Init /\ [][NextFollowups]_vars

---------------------------------------------------------------------------
(* A user's browser session over time, while that user edits the own       *)
(* profile and works on the Candidates page and an admin in another        *)
(* browser manages the user's account                                      *)

AccountLogins ==
    {<<DEFAULT_ADMIN_USERNAME, DEFAULT_ADMIN_PASSWORD>>,
     <<"rita", "hunter2-hunter2">>,
     <<"rita", "wrong-password">>,
     <<"nobody", "hunter2-hunter2">>}

AccountCandidateData ==
    [email : {PyStr(CandidateEmailSeq[seq.candidates + 1])},
     status : {PyStr(STATUS_APPLIED)}, recruiter_id : {PyNone}]

NextAccount ==
    \/ \E l \in AccountLogins : show_login_page(l[1], l[2])
    \/ SessionManager_clear_session
    \/ SessionManager_check_session_timeout
    \/ Tick
    \/ \E email \in UserEmails : Settings_update_profile("Renamed", email)
    \/ \E data \in AccountCandidateData : Candidates_add_new(data)
    \/ UserModel_toggle_active_status(2)
    \/ UserModel_update_role(2, ROLE_VIEWER)
    \/ UserModel_delete(2)

SpecAccount == InitReassign /\ [][NextAccount]_vars

---------------------------------------------------------------------------
(* The admin's User Management tab: users are added, their roles changed,   *)
(* their accounts deactivated and deleted, by whoever is logged in as admin *)

AdminLogins ==
    {<<DEFAULT_ADMIN_USERNAME, DEFAULT_ADMIN_PASSWORD>>, <<"rita", "hunter2-hunter2">>}

NextAdmins ==
    \/ \E l \in AdminLogins : show_login_page(l[1], l[2])
    \/ SessionManager_clear_session
    \/ \E role \in Range(ROLES), password \in {"hunter2-hunter2", "short"} :
          Settings_add_user("rita", "rita@example.com", password, "Rita Recruiter", role)
    \/ \E id \in UserIds, role \in Range(ROLES) : Settings_update_role(id, role)
    \/ \E id \in UserIds : Settings_toggle_status(id)
    \/ \E id \in UserIds : Settings_delete_user(id)

SpecAdmins == Init /\ [][NextAdmins]_vars

---------------------------------------------------------------------------
(* The reassignment view over recruiters whose accounts an admin changes   *)

\* a second recruiter the admin has added
SecondRecruiter ==
    [id |-> 3,
     username |-> "ann",
     email |-> "ann.recruiter@example.com",
     password_hash |-> hashpw("hunter2-hunter2", 2),
     full_name |-> "Ann Recruiter",
     role |-> ROLE_RECRUITER,
     is_active |-> TRUE]

InitDistribution ==
    /\ users = (1 :> SeededAdmin(1)) @@ (2 :> RecruiterUser) @@ (3 :> SecondRecruiter)
    /\ candidates = <<>>
    /\ call_history = <<>>
    /\ seq = [users |-> 3, candidates |-> 0, call_history |-> 0]
    /\ session = AnonymousSession
    /\ now = 0
    /\ stats = StatsIdle
    /\ page = NoPage
    /\ pending = NoneInProgress
    /\ ret = [op |-> "init"]

\* candidates are assigned to a recruiter, or to nobody, on the Candidates page
DistributionCandidateData ==
    [email : {PyStr(CandidateEmailSeq[seq.candidates + 1])},
     status : {PyStr(STATUS_APPLIED)},
     recruiter_id : {PyNone, PyInt(2), PyInt(3)},
     created_by : {PyInt(1)}]

NextDistribution ==
    \/ show_login_page(DEFAULT_ADMIN_USERNAME, DEFAULT_ADMIN_PASSWORD)
    \/ \E data \in DistributionCandidateData : CandidateModel_create(data)
    \/ \E role \in {ROLE_VIEWER, ROLE_RECRUITER} : Settings_update_role(3, role)
    \/ Settings_toggle_status(3)
    \/ Settings_delete_user(3)
    \/ Settings_reassign_view

SpecDistribution == InitDistribution /\ [][NextDistribution]_vars

---------------------------------------------------------------------------
(* Properties of the repositories *)

SearchIds(filters) == {search(filters)[k].id : k \in DOMAIN search(filters)}
ValueIds(rows) == {rows[k].id : k \in DOMAIN rows}

StatusesListing(c) ==
    {s \in Range(CANDIDATE_STATUSES) : c \in SearchIds([status |-> PyStr(s)])}

\* C6: a candidate created as Applied is in search({'status': 'Applied'}); once
\* update or update_status has set its status to Hired it is in
\* search({'status': 'Hired'}) and no longer in search({'status': 'Applied'}); at
\* every point each candidate is in the status search of exactly one status, and
\* a status search returns exactly the candidates that have the status.
C6_StatusSearchFollowsStatus ==
    /\ \A c \in DOMAIN candidates : Cardinality(StatusesListing(c)) = 1
    /\ (ret.op = "candidate_search" /\ DOMAIN ret.filters = {"status"}) =>
          ValueIds(ret.value) =
             {c \in DOMAIN candidates : candidates[c].status = ret.filters.status}
    /\ (ret.op = "candidate_create" /\ ~IsNone(ret.value)
          /\ candidates[ret.value[2]].status = PyStr(STATUS_APPLIED))
       => ret.value[2] \in SearchIds([status |-> PyStr(STATUS_APPLIED)])
    /\ (/\ ret.op \in {"candidate_update", "candidate_update_status"}
        /\ ret.value = TRUE
        /\ ret.id \in DOMAIN candidates
        /\ candidates[ret.id].status = PyStr(STATUS_HIRED))
       => /\ ret.id \notin SearchIds([status |-> PyStr(STATUS_APPLIED)])
          /\ ret.id \in SearchIds([status |-> PyStr(STATUS_HIRED)])

\* C6 witness: update_status has just moved a candidate to Hired and the Hired
\* search lists it
C6_Witness ==
    /\ ret.op = "candidate_update_status"
    /\ ret.new_status = PyStr(STATUS_HIRED)
    /\ ret.value = TRUE
    /\ ret.id \in SearchIds([status |-> PyStr(STATUS_HIRED)])
    /\ ret.id \notin SearchIds([status |-> PyStr(STATUS_APPLIED)])

\* C8: every interaction row refers to a candidate that still exists.
C8_InteractionsReferToCandidates ==
    \A i \in DOMAIN call_history :
        \E c \in DOMAIN candidates : call_history[i].candidate_id = PyInt(c)

AssignedCandidates == {c \in DOMAIN candidates : ~IsNone(candidates[c].recruiter_id)}

\* C3: search({'recruiter_id': None}) returns exactly the candidates whose
\* recruiter_id is null, and so differs from search({}) whenever some candidate
\* has a recruiter assigned.
C3_NullRecruiterSearch ==
    (ret.op = "candidate_search" /\ DOMAIN ret.filters = {"recruiter_id"}
        /\ ret.filters.recruiter_id = PyNone)
    => /\ ValueIds(ret.value) = DOMAIN candidates \ AssignedCandidates
       /\ AssignedCandidates # {} => ret.value # search(NoFilters)

ListsAllOnce(rows) ==
    /\ Len(rows) = Cardinality(DOMAIN candidates)
    /\ ValueIds(rows) = DOMAIN candidates

NewestFirst(rows) ==
    \A i, j \in DOMAIN rows : i < j => rows[i].created_at >= rows[j].created_at

\* C4: search({}) returns the list get_all() returns: every candidate exactly
\* once, ordered by creation time descending.
C4_EmptySearchIsGetAll ==
    /\ (ret.op = "candidate_search" /\ DOMAIN ret.filters = {}) =>
          /\ ret.value = get_all
          /\ ListsAllOnce(ret.value)
          /\ NewestFirst(ret.value)
    /\ ret.op = "candidate_get_all" =>
          /\ ret.value = search(NoFilters)
          /\ ListsAllOnce(ret.value)
          /\ NewestFirst(ret.value)

\* C4 witness: search({}) has returned two candidates created at different times,
\* the later one first
C4_Witness ==
    /\ ret.op = "candidate_search"
    /\ DOMAIN ret.filters = {}
    /\ Len(ret.value) = 2
    /\ ret.value[1].created_at > ret.value[2].created_at
    /\ ret.value[1].id > ret.value[2].id

\* a filter value that counts as empty
EmptyValue(v) == v \in {PyNone, PyStr(""), PyList(<<>>)}

\* the key is present and not empty
Restricts(filters, k) == k \in DOMAIN filters /\ ~EmptyValue(filters[k])

SatisfiesFilters(c, filters) ==
    /\ Restricts(filters, "status") =>
          IF filters.status[1] = "list"
          THEN c.status \in Range(filters.status[2])
          ELSE c.status = filters.status
    /\ Restricts(filters, "min_experience") =>
          /\ c.years_of_experience[1] = "int"
          /\ c.years_of_experience[2] >= filters.min_experience[2]
    /\ Restricts(filters, "max_experience") =>
          /\ c.years_of_experience[1] = "int"
          /\ c.years_of_experience[2] <= filters.max_experience[2]
    /\ Restricts(filters, "recruiter_id") => c.recruiter_id = filters.recruiter_id
    /\ Restricts(filters, "source") => c.source = filters.source

---------------------------------------------------------------------------
(* Properties of the authenticator and the session *)

\* the table of section 4.1 of the specification
PermissionTable ==
    [admin |-> {"create", "edit", "delete", "view", "export", "manage_users"},
     recruiter |-> {"create", "edit", "delete", "view", "export"},
     viewer |-> {"view", "export"}]

\* C1: whatever users are stored, check_permission(r, a) is the entry of the
\* table for one of the three roles (admin all six actions, recruiter all but
\* manage_users, viewer view and export only), and false for any other role
C1_PermissionTable ==
    ret.op = "check_permission" =>
        /\ ret.role \in {"admin", "recruiter", "viewer"} =>
              (ret.value <=> ret.action \in PermissionTable[ret.role])
        /\ ret.role \notin {"admin", "recruiter", "viewer"} => ret.value = FALSE

\* a viewer is granted export while the stored admin has been demoted and
\* deactivated
C1_Witness ==
    /\ ret.op = "check_permission"
    /\ ret.role = "viewer" /\ ret.action = "export" /\ ret.value = TRUE
    /\ users[1].role = "viewer" /\ ~users[1].is_active

\* the users a login with these credentials must accept
Accepts(username, password) ==
    {i \in DOMAIN users :
        /\ users[i].username = username
        /\ users[i].is_active
        /\ verify_password(password, users[i].password_hash)}

\* C2: after any sequence of create_user, toggle_active_status, change_password
\* and user deletions, login returns a user record exactly when a user of that
\* name exists, is active and the password verifies against the stored hash; the
\* record is that user's and has no password_hash; otherwise login returns None
C2_LoginIffActiveAndVerified ==
    ret.op = "login" =>
        /\ ~IsNone(ret.value) <=> Accepts(ret.username, ret.password) # {}
        /\ ~IsNone(ret.value) =>
              /\ "password_hash" \notin DOMAIN ret.value[2]
              /\ ret.value[2].id \in Accepts(ret.username, ret.password)

\* the right password of a user that exists and has been deactivated is refused
C2_Witness ==
    /\ ret.op = "login"
    /\ IsNone(ret.value)
    /\ \E i \in DOMAIN users :
          /\ users[i].username = ret.username
          /\ verify_password(ret.password, users[i].password_hash)
          /\ ret.password # DEFAULT_ADMIN_PASSWORD
          /\ ~users[i].is_active

RECURSIVE SumOf(_)
SumOf(f) ==
    IF DOMAIN f = {} THEN 0
    ELSE LET k == CHOOSE k \in DOMAIN f : TRUE
         IN  f[k] + SumOf([j \in DOMAIN f \ {k} |-> f[j]])

\* C7: a get_statistics() that no write to candidates overlapped returns a total
\* equal to the length of get_all(), by_status counts that add up to the total,
\* and by_status keys for exactly the statuses some candidate has
C7_StatisticsAgree ==
    (stats.pc = "done" /\ ~stats.stale) =>
        /\ stats.value.total = Len(get_all)
        /\ SumOf(stats.value.by_status) = stats.value.total
        /\ DOMAIN stats.value.by_status = {c.status : c \in CandidateRows}

\* statistics over two candidates in different statuses
C7_Witness ==
    /\ stats.pc = "done" /\ ~stats.stale
    /\ stats.value.total = 2
    /\ Cardinality(DOMAIN stats.value.by_status) = 2

\* C10: check_session_timeout() called at the instant of a login returns False
\* and leaves the session; called more than 24 hours after the login it returns
\* True and the session is Anonymous afterwards: not authenticated, no user
C10_SessionTimeout ==
    [][ret'.op = "check_session_timeout" =>
          /\ (ret.op = "show_login_page" /\ ret.value) =>
                (ret'.value = FALSE /\ session' = session)
          /\ (session.authenticated /\ time_difference > 24) =>
                /\ ret'.value = TRUE
                /\ session'.authenticated = FALSE
                /\ session'.user = PyNone
                /\ session'.login_time = PyNone]_vars

\* the check has just expired a session
C10_Witness ==
    /\ ret.op = "check_session_timeout"
    /\ ret.value = TRUE
    /\ ~is_authenticated
    /\ IsNone(get_current_user)
    /\ now * HoursPerTick > SESSION_TIMEOUT_HOURS

---------------------------------------------------------------------------
(* Properties of the pages *)

\* the tables of records
records == <<users, candidates, call_history>>

\* a page has returned candidates to the session
PageRead(r) == r.op \in {"candidate_search", "candidate_get_all"}

\* C11: every page run checks the session timeout before it treats the session
\* as authenticated, so that while the session's login is more than 24 hours old
\* no step reads or changes the records
C11_NoPageUseAfterTimeout ==
    [][(session.authenticated /\ time_difference > 24) =>
          /\ records' = records
          /\ ~(ret' # ret /\ PageRead(ret'))]_vars

\* C12: while the session's role is viewer no step changes the candidates or
\* the call_history table
C12_ViewerChangesNothing ==
    [][(session.authenticated /\ user_role = ROLE_VIEWER) =>
          /\ candidates' = candidates
          /\ call_history' = call_history]_vars

---------------------------------------------------------------------------
(* Properties of the users table *)

ValidRoles == {"admin", "recruiter", "viewer"}

\* C13: create_user with a role that is none of admin, recruiter, viewer fails on
\* the role (the ValueError "Invalid role", reported as False) and the users
\* table after the call is the table before it
C13_InvalidRoleInsertsNothing ==
    [][(ret'.op = "create_user" /\ ret'.role \notin ValidRoles) =>
          /\ ret'.value = FALSE
          /\ ret'.error = "ValueError"
          /\ users' = users]_vars

\* create_user has refused a role while the username and the email were free
C13_Witness ==
    /\ ret.op = "create_user"
    /\ ret.role \notin ValidRoles
    /\ ret.value = FALSE
    /\ \A i \in DOMAIN users : users[i].username # ret.username /\ users[i].email # ret.email

UsersWellFormed ==
    /\ \A i, j \in DOMAIN users :
          i # j => (users[i].username # users[j].username /\ users[i].email # users[j].email)
    /\ \A i \in DOMAIN users : users[i].role \in ValidRoles

\* the call that has just returned asked for a username or an email held by a
\* user other than the one it writes, or for a role that is none of the three
Refused ==
    \/ /\ ret'.op = "create_user"
       /\ \E i \in DOMAIN users :
             users[i].username = ret'.username \/ users[i].email = ret'.email
    \/ /\ ret'.op = "user_update_profile"
       /\ ret'.id \in DOMAIN users
       /\ \E i \in DOMAIN users \ {ret'.id} : users[i].email = ret'.email
    \/ /\ ret'.op = "user_update_role"
       /\ ret'.id \in DOMAIN users
       /\ ret'.role \notin ValidRoles

---------------------------------------------------------------------------
(* Properties of change_password *)

\* C15: a change_password that returns while the user does not exist or while
\* old does not verify against the hash then stored returns False and leaves
\* the users table; one that returns True has replaced the hash, so that new
\* verifies against the stored hash and old, when it differs, no longer does.
\* The check of old and the replacement are one step, also when another
\* change_password for the user runs at the same time
C15_ChangePasswordAtomic ==
    [][ret'.op = "change_password" =>
          /\ (\/ ret'.id \notin DOMAIN users
              \/ ~verify_password(ret'.old, users[ret'.id].password_hash))
                => (ret'.value = FALSE /\ users' = users)
          /\ ret'.value = FALSE => users' = users
          /\ ret'.value = TRUE =>
                /\ ret'.id \in DOMAIN users'
                /\ verify_password(ret'.new, users'[ret'.id].password_hash)
                /\ ret'.new # ret'.old =>
                      ~verify_password(ret'.old, users'[ret'.id].password_hash)]_vars

---------------------------------------------------------------------------
(* Properties of the leaderboard *)

\* C16: the leaderboard is in descending order of success_rate, and of two
\* entries with equal success_rate the one with the higher total comes first
C16_LeaderboardOrder ==
    ret.op = "leaderboard" =>
        \A i, j \in DOMAIN ret.value :
            i < j =>
               /\ ~RateLt(ret.value[i].success_rate, ret.value[j].success_rate)
               /\ RateEq(ret.value[i].success_rate, ret.value[j].success_rate) =>
                     ret.value[i].total >= ret.value[j].total

\* two entries with equal success_rate: the one with more candidates is first
\* although its recruiter's name sorts last
C16_Witness ==
    /\ ret.op = "leaderboard"
    /\ Len(ret.value) = 2
    /\ RateEq(ret.value[1].success_rate, ret.value[2].success_rate)
    /\ ret.value[1].total > ret.value[2].total
    /\ NameRank(ret.value[1].recruiter) > NameRank(ret.value[2].recruiter)

\* the users the leaderboard is about, and the candidates of one of them
Recruiters == {u \in DOMAIN users : users[u].role \in {"recruiter", "admin"} /\ users[u].is_active}
Assigned(u) == {c \in DOMAIN candidates : candidates[c].recruiter_id = PyInt(u)}
AssignedIn(u, statuses) == {c \in Assigned(u) : candidates[c].status[2] \in statuses}

\* the entry section 4.3 of the specification derives for recruiter u
ExpectedEntry(u) ==
    LET total == Cardinality(Assigned(u))
        hired == Cardinality(AssignedIn(u, {"Hired"}))
        converted == Cardinality(AssignedIn(u, {"Interview", "Offer", "Hired"}))
    IN  [recruiter |-> users[u].full_name,
         total |-> total,
         hired |-> hired,
         interview |-> Cardinality(AssignedIn(u, {"Interview"})),
         offer |-> Cardinality(AssignedIn(u, {"Offer"})),
         rejected |-> Cardinality(AssignedIn(u, {"Rejected"})),
         success_rate |-> IF total = 0 THEN <<0, 1>> ELSE <<hired * 100, total>>,
         conversion_rate |-> IF total = 0 THEN <<0, 1>> ELSE <<converted * 100, total>>]

\* u is ranked before v: by success_rate, then total, then name, then id
RankedBefore(u, v) ==
    LET a == ExpectedEntry(u)
        b == ExpectedEntry(v)
    IN  \/ a.success_rate[1] * b.success_rate[2] > b.success_rate[1] * a.success_rate[2]
        \/ /\ a.success_rate[1] * b.success_rate[2] = b.success_rate[1] * a.success_rate[2]
           /\ \/ a.total > b.total
              \/ /\ a.total = b.total
                 /\ \/ NameRank(a.recruiter) < NameRank(b.recruiter)
                    \/ a.recruiter = b.recruiter /\ u < v

RECURSIVE Ranking(_)
Ranking(S) ==
    IF S = {} THEN <<>>
    ELSE LET first == CHOOSE u \in S : \A v \in S \ {u} : RankedBefore(u, v)
         IN  <<first>> \o Ranking(S \ {first})

C18_LeaderboardRates ==
    ret.op = "leaderboard" =>
        \E f \in [DOMAIN ret.value -> Recruiters] :
            /\ \A u \in Recruiters : Cardinality({k \in DOMAIN ret.value : f[k] = u}) = 1
            /\ \A k \in DOMAIN ret.value :
                  LET e == ret.value[k]
                      hired == Cardinality(AssignedIn(f[k], {"Hired"}))
                      converted ==
                          Cardinality(AssignedIn(f[k], {"Interview", "Offer", "Hired"}))
                  IN  /\ e.total = Cardinality(Assigned(f[k]))
                      /\ e.success_rate[2] > 0 /\ e.conversion_rate[2] > 0
                      /\ e.total = 0 => (e.success_rate[1] = 0 /\ e.conversion_rate[1] = 0)
                      /\ e.total > 0 =>
                            /\ e.success_rate[1] * e.total = hired * 100 * e.success_rate[2]
                            /\ e.conversion_rate[1] * e.total
                                  = converted * 100 * e.conversion_rate[2]
                      /\ 0 <= e.success_rate[1]
                      /\ e.success_rate[1] * e.conversion_rate[2]
                            <= e.conversion_rate[1] * e.success_rate[2]
                      /\ e.conversion_rate[1] <= 100 * e.conversion_rate[2]

\* a recruiter with two candidates, one hired and one in interview, next to a
\* recruiter with none
C18_Witness ==
    /\ ret.op = "leaderboard"
    /\ \E k \in DOMAIN ret.value :
          /\ ret.value[k].total = 2
          /\ ret.value[k].hired = 1
          /\ ret.value[k].interview = 1
    /\ \E k \in DOMAIN ret.value : ret.value[k].total = 0

---------------------------------------------------------------------------
(* Properties of the bulk reassignment *)

\* C19: the bulk reassignment reports as attempted the number of candidates
\* listed and as succeeded the number of them whose recruiter_id this run did
\* set to the target, also when a write fails or a listed candidate has been
\* deleted by another user before its write
C19_ReassignCounts ==
    ret.op = "reassign_all" =>
        /\ ret.attempted = Cardinality(ret.listed)
        /\ ret.succeeded = Cardinality(ret.written)

---------------------------------------------------------------------------
(* Properties of the candidates table *)

SixStatuses ==
    {PyStr("Applied"), PyStr("Screening"), PyStr("Interview"),
     PyStr("Offer"), PyStr("Hired"), PyStr("Rejected")}

CandidatesWellFormed ==
    /\ \A i \in DOMAIN candidates : candidates[i].status \in SixStatuses
    /\ \A i, j \in DOMAIN candidates :
          i # j => candidates[i].email # candidates[j].email

\* the status a create or an update asks the table to store
RequestedStatus(r) ==
    IF "status" \in DOMAIN r.data THEN r.data.status
    ELSE IF r.op = "candidate_create" THEN PyStr("Applied")
    ELSE PyNone

\* the call that has just returned asked for a status that is none of the six,
\* or for an email held by a candidate other than the one it writes
CandidateRefused ==
    \/ /\ ret'.op = "candidate_create"
       /\ \/ RequestedStatus(ret') \notin SixStatuses
          \/ \E i \in DOMAIN candidates : candidates[i].email = ret'.data.email
    \/ /\ ret'.op = "candidate_update"
       /\ ret'.id \in DOMAIN candidates
       /\ \/ RequestedStatus(ret') \notin SixStatuses
          \/ \E i \in DOMAIN candidates \ {ret'.id} :
                candidates[i].email = ret'.data.email
    \/ /\ ret'.op = "candidate_update_status"
       /\ ret'.id \in DOMAIN candidates
       /\ ret'.new_status \notin SixStatuses

CandidateFailure ==
    IF ret'.op = "candidate_create" THEN ret'.value = PyNone ELSE ret'.value = FALSE

\* a create that passed no status and succeeded
CreatedWithoutStatus ==
    /\ ret'.op = "candidate_create"
    /\ "status" \notin DOMAIN ret'.data
    /\ ~CandidateRefused

\* C20: after any sequence of candidate create, update, update_status and
\* delete every stored candidate has one of the six statuses and no two
\* candidates share an email; a create, update or update_status that would break
\* either reports failure and leaves the candidates table as it was; a create
\* that passes no status stores Applied
C20_CandidatesStatusAndEmail ==
    /\ []CandidatesWellFormed
    /\ [][CandidateRefused => (CandidateFailure /\ candidates' = candidates)]_vars
    /\ [][CreatedWithoutStatus =>
            /\ ret'.value # PyNone
            /\ candidates'[ret'.value[2]].status = PyStr("Applied")]_vars

\* create has been refused the email of a stored candidate
C20_Witness ==
    /\ ret.op = "candidate_create"
    /\ ret.value = PyNone
    /\ RequestedStatus(ret) \in SixStatuses
    /\ \E i \in DOMAIN candidates : candidates[i].email = ret.data.email

---------------------------------------------------------------------------
(* Properties of the follow-ups *)

\* C21: get_upcoming_followups() returns exactly the interactions that have a
\* next_action_date and whose next_action_date is the current date or later,
\* each once, ordered by next_action_date ascending
C21_UpcomingFollowups ==
    ret.op = "get_upcoming_followups" =>
        /\ ValueIds(ret.value) =
              {i \in DOMAIN call_history :
                  /\ call_history[i].next_action_date # PyNone
                  /\ call_history[i].next_action_date[2] >= Date(now)}
        /\ Len(ret.value) = Cardinality(ValueIds(ret.value))
        /\ \A k \in 1..(Len(ret.value) - 1) :
              ret.value[k].next_action_date[2] <= ret.value[k + 1].next_action_date[2]

\* a follow-up dated yesterday and one without a date are stored, one dated
\* today is returned
C21_Witness ==
    /\ ret.op = "get_upcoming_followups"
    /\ Len(ret.value) = 1
    /\ ret.value[1].next_action_date = PyDate(Date(now))
    /\ \E i \in DOMAIN call_history :
          \/ call_history[i].next_action_date = PyNone
          \/ /\ call_history[i].next_action_date # PyNone
             /\ call_history[i].next_action_date[2] < Date(now)

---------------------------------------------------------------------------
(* Properties of the statistics under concurrent writes *)

ByStatusRead == stats.pc \in {"by_source", "by_recruiter", "recent", "done"}

\* C22: the by_status counts of a get_statistics() differ in sum from its total
\* only when a write to candidates committed between its queries; a
\* get_statistics() that ran with no write in between returns by_status counts
\* that add up to its total, which is the number of candidates stored
C22_StatisticsTornOnlyByWrites ==
    /\ (ByStatusRead /\ SumOf(stats.value.by_status) # stats.value.total) => stats.stale
    /\ (stats.pc = "done" /\ ~stats.stale) =>
          /\ SumOf(stats.value.by_status) = stats.value.total
          /\ stats.value.total = Cardinality(DOMAIN candidates)

\* a get_statistics() has returned by_status counts that do not add up to its
\* total: a candidate was created or deleted between the two queries
C22_Witness ==
    /\ stats.pc = "done"
    /\ stats.stale
    /\ SumOf(stats.value.by_status) # stats.value.total

---------------------------------------------------------------------------
(* Properties of the session *)

\* C23: a session becomes Authenticated only in a login step that succeeded; a
\* login that fails leaves the session Anonymous; a session leaves Authenticated
\* only in a logout or in a timeout check that reports the expiry
C23_SessionTransitions ==
    [][/\ (~session.authenticated /\ session'.authenticated) =>
             /\ ret'.op = "show_login_page"
             /\ ret'.value = TRUE
             /\ \E i \in DOMAIN users :
                   /\ users[i].username = ret'.username
                   /\ users[i].is_active
                   /\ session'.user[2].id = i
       /\ (ret'.op = "show_login_page" /\ ret'.value = FALSE) =>
             (~session'.authenticated /\ session' = session)
       /\ (session.authenticated /\ ~session'.authenticated) =>
             \/ ret'.op = "clear_session"
             \/ (ret'.op = "check_session_timeout" /\ ret'.value = TRUE)]_vars

\* the login of a deactivated user with the right password has been refused
C23_Witness ==
    /\ ret.op = "show_login_page"
    /\ ret.username = "rita"
    /\ ret.value = FALSE
    /\ ~session.authenticated
    /\ 2 \in DOMAIN users
    /\ ~users[2].is_active

\* C24: the expiry of a session is measured from the login that authenticated
\* it: no operation of an authenticated session moves the login time, and a
\* check_session_timeout() more than 24 hours after it reports the expiry and
\* leaves the session Anonymous
C24_ExpiryMeasuredFromLogin ==
    [][/\ (session.authenticated /\ session'.authenticated) =>
             session'.login_time = session.login_time
       /\ (/\ ret'.op = "check_session_timeout"
           /\ session.authenticated
           /\ time_difference > 24) =>
             (ret'.value = TRUE /\ ~session'.authenticated)]_vars

\* C25: authenticated is true exactly when user is not None, and exactly when
\* login_time is not None
C25_SessionFieldsAgree ==
    /\ session.authenticated <=> session.user # PyNone
    /\ session.authenticated <=> session.login_time # PyNone

\* the Update Profile form has handed the user to set_current_user again
C25_Witness ==
    /\ ret.op = "settings_update_profile"
    /\ ret.value = TRUE
    /\ session.authenticated
    /\ session.user # PyNone
    /\ session.login_time = PyInt(now)
    /\ now > 0

\* C26: a step in which an admin deactivates, deletes or changes the role of a
\* user leaves every field of the session as it was, and the Candidates page
\* adds a candidate exactly for a session whose user dict holds a role that may
\* create, whatever the users table holds for that user
C26_StoreChangesDoNotReachSession ==
    [][/\ ret'.op \in {"user_toggle_active_status", "user_delete", "user_update_role"} =>
             session' = session
       /\ ret'.op = "candidate_create" =>
             /\ session.authenticated
             /\ session.user[2].role \in {"admin", "recruiter"}]_vars

\* rita, logged in as a recruiter and since then deactivated, deleted or made a
\* viewer, has added a candidate
C26_Witness ==
    /\ ret.op = "candidate_create"
    /\ ret.value # PyNone
    /\ session.authenticated
    /\ session.user[2].id = 2
    /\ session.user[2].role = "recruiter"
    /\ \/ 2 \notin DOMAIN users
       \/ /\ 2 \in DOMAIN users
          /\ (~users[2].is_active \/ users[2].role = "viewer")

---------------------------------------------------------------------------
(* Properties of the user management *)

\* C27: after any sequence of additions, role changes, status toggles and
\* deletions made on the Settings page by admins, some user is active and has
\* the role admin
C27_ActiveAdminExists ==
    \E i \in DOMAIN users : users[i].is_active /\ users[i].role = "admin"

---------------------------------------------------------------------------
(* Properties of writes to candidates that do not exist *)

\* C28: update, update_status and delete return True only for the id of a
\* stored candidate; for an id that matches no candidate they return False and
\* leave the candidates table as it was
C28_MissingCandidateReported ==
    [][(/\ ret'.op \in {"candidate_update", "candidate_update_status", "candidate_delete"}
        /\ ret'.id \notin DOMAIN candidates) =>
          (ret'.value = FALSE /\ candidates' = candidates)]_vars

\* a step in which a reassignment, bulk or individual, writes a candidate
ReassignWrite ==
    \/ page.name = "reassign_all" /\ page'.name = "reassign_all" /\ page' # page
    \/ page.name = "reassign_selected" /\ page'.name = "none"

\* C29: a write of a reassignment changes no field of any candidate other than
\* recruiter_id: every other field keeps the value stored when the write is
\* made, also when another user changed the candidate after the list was read
C29_ReassignChangesRecruiterOnly ==
    [][ReassignWrite =>
          \A i \in DOMAIN candidates :
              /\ i \in DOMAIN candidates'
              /\ [candidates'[i] EXCEPT !.recruiter_id = candidates[i].recruiter_id]
                    = candidates[i]]_vars

---------------------------------------------------------------------------
(* Properties of the reassignment view *)

RECURSIVE SumCandidates(_)
SumCandidates(rows) ==
    IF rows = <<>> THEN 0 ELSE Head(rows).Candidates + SumCandidates(Tail(rows))

\* C30: in the reassignment view the counts of the distribution table, the
\* Unassigned row included, add up to the number of candidates, and every
\* candidate is listed under exactly one of the sources that can be selected
C30_EveryCandidateAccountedFor ==
    ret.op = "reassign_view" =>
        /\ SumCandidates(ret.recruiter_stats) = Cardinality(DOMAIN candidates)
        /\ \A c \in DOMAIN candidates :
              Cardinality({o \in DOMAIN ret.listed : c \in ret.listed[o]}) = 1

===========================================================================
